---- MODULE Spec2Model ----
\* collab-tasks: the auth, team, task, comment and attachment handlers of the
\* Express/Mongoose backend, as a state machine over the User, Team, Task,
\* Comment and Attachment collections and the uploaded files.
\* A handler is one action per await; the HTTP response is recorded in `last`.
EXTENDS Integers, Sequences, FiniteSets, TLC

\* ---------------------------------------------------------------- bounds
NumUsers == 2        \* User documents in the database
MaxTeams == 1        \* Team documents ever created
MaxTasks == 1        \* Task documents ever created
MaxTime  == 2        \* last value of the millisecond clock Date.now()
MaxComments == 1     \* Comment documents ever created
MaxAttachments == 1  \* Attachment documents ever created
MaxRegistered == 1   \* User documents created by register
MaxParam == 2        \* largest page and limit of a getTasks query
MaxInflight == 2     \* requests served at the same time

\* ---------------------------------------------------------------- values
None == 0            \* an unset ObjectId / Date field (undefined)
NoRole == "none"     \* a request body without `role`

UserIds == 1..(NumUsers + 1)     \* NumUsers+1 is a well-formed id of no user
TeamIds == 1..MaxTeams           \* an id names no team before its creation
                                 \* and after its deletion
TaskIds == 1..MaxTasks           \* likewise for tasks

MemberRoles == {"owner", "admin", "member"}
Statuses == {"open", "in-progress", "completed", "cancelled"}
Priorities == {"low", "medium", "high", "urgent"}
Absent == -1         \* a request body without the field
NoStatus == "absent" \* a request body without `status`
NoPriority == "absent"  \* a request body without `priority`
NoList == <<Absent>> \* a request body without the array field

\* well-formed email addresses, one more than users there can be
Emails == 1..(NumUsers + MaxRegistered + 1)
Passwords == {1, 2}  \* plain-text passwords
Empty == 0           \* a missing or empty email or password

DefaultPage == 1      \* getTasks: page = 1 when the query has none
DefaultLimit == 10    \* getTasks: limit = 10 when the query has none

CommentIds == 1..MaxComments
AttachmentIds == 1..MaxAttachments
Contents == {"a", "b"}           \* comment texts, non-empty after trim()

VARIABLES
  users,        \* User collection: id -> [role, teams, email, password]
  nextUserId,   \* the ObjectId the next User.create gets
  teams,        \* Team collection: id -> [owner, members]
  nextTeamId,   \* the ObjectId the next Team.create gets
  tasks,        \* Task collection: id -> [status, createdBy, assignedTo, ...]
  nextTaskId,   \* the ObjectId the next Task.create gets
  now,          \* Date.now()
  last,         \* the last request and its response
  comments,     \* Comment collection: id -> [task, author, content]
  nextCommentId,
  attachments,  \* Attachment collection: id -> [task, uploadedBy]
  nextAttachmentId,
  blobs,        \* attachments whose file is on disk at attachment.path
  logged,       \* lines deleteAttachment wrote with console.error
  inflight      \* the requests being served, between two awaits

\* what the comment and attachment handlers own
collabVars ==
  <<comments, nextCommentId, attachments, nextAttachmentId, blobs, logged>>

vars ==
  <<users, nextUserId, teams, nextTeamId, tasks, nextTaskId, now, last,
    collabVars, inflight>>

\* --------------------------------------------------------- array helpers
\* Array.prototype.some over team.members on member.user
HasMember(members, u) ==
  \E i \in 1..Len(members) : members[i].user = u

\* MongoDB $pull: removes every element equal to x
Pull(arr, x) == SelectSeq(arr, LAMBDA e : e # x)

\* MongoDB $push
Push(arr, x) == Append(arr, x)

\* number of membership records of user u
CountMember(members, u) ==
  Cardinality({i \in 1..Len(members) : members[i].user = u})

\* number of occurrences of x in an array
Count(arr, x) == Cardinality({i \in 1..Len(arr) : arr[i] = x})

\* ------------------------------------------------------------ responses
\* What a handler does: the HTTP status and message it sends, and the
\* collections as it leaves them.
TeamRes(code, msg, ts, us) ==
  [code |-> code, msg |-> msg, teams |-> ts, users |-> us]

\* The request last served: handler, response status and message, and for a
\* task handler the task it was about.
Served(op, id, r) == [op |-> op, task |-> id, code |-> r.code, msg |-> r.msg]

\* ------------------------------------------------------------ Team model
\* teamSchema.pre('save') that never inserts the owner
TeamPreSave_SkipOwner(doc, isNew) == doc

\* teamSchema.pre('save'): a new team gets its owner as member with role owner
TeamPreSave(doc, isNew) ==
  IF isNew /\ doc.owner # None /\ ~HasMember(doc.members, doc.owner)
  THEN [doc EXCEPT !.members =
          Push(@, [user |-> doc.owner, role |-> "owner"])]
  ELSE doc

\* the role test dropped: any membership record authorizes
IsOwnerOrAdmin_AnyRole(team, caller) ==
  \E i \in 1..Len(team.members) : team.members[i].user = caller

\* the requester holds membership role owner or admin in the team
IsOwnerOrAdmin(team, caller) ==
  \E i \in 1..Len(team.members) :
    /\ team.members[i].user = caller
    /\ team.members[i].role \in {"owner", "admin"}

\* req.user.role === 'admin'
IsGlobalAdmin(caller) == users[caller].role = "admin"

\* User.findByIdAndUpdate(id, {$push: {teams: t}}): no-op when id names no user
UsersPushTeam(us, u, t) ==
  IF u \in DOMAIN us THEN [us EXCEPT ![u].teams = Push(@, t)] ELSE us

\* the $pull of the back-reference left out
UsersPullTeam_Skipped(us, u, t) == us

\* User.findByIdAndUpdate(id, {$pull: {teams: t}}): no-op when id names no user
UsersPullTeam(us, u, t) ==
  IF u \in DOMAIN us THEN [us EXCEPT ![u].teams = Pull(@, t)] ELSE us

\* ---------------------------------------------------------- team handlers
\* Each handler is an operator from the request to its result in the current
\* state when no other request is served between its awaits; the actions below
\* take the same handler await by await.
createTeam(caller) ==
  LET id  == nextTeamId
      doc == TeamPreSave([owner |-> caller, members |-> <<>>], TRUE)
  IN TeamRes(201, "ok", teams @@ (id :> doc), UsersPushTeam(users, caller, id))

\* writes name and description only, which no handler reads: not modelled
updateTeam(caller, t) ==
  IF t \notin DOMAIN teams
  THEN TeamRes(404, "Team not found", teams, users)
  ELSE IF ~IsOwnerOrAdmin(teams[t], caller) /\ ~IsGlobalAdmin(caller)
  THEN TeamRes(403, "Not authorized to update this team", teams, users)
  ELSE TeamRes(200, "ok", teams, users)

\* addMember without the 'already a member' test
addMember_NoMemberCheck(caller, t, userId, role) ==
  IF t \notin DOMAIN teams
  THEN TeamRes(404, "Team not found", teams, users)
  ELSE IF ~IsOwnerOrAdmin(teams[t], caller) /\ ~IsGlobalAdmin(caller)
  THEN TeamRes(403, "Not authorized to add members to this team",
               teams, users)
  ELSE IF userId \notin DOMAIN users
  THEN TeamRes(404, "User not found", teams, users)
  ELSE LET r   == IF role = NoRole THEN "member" ELSE role
           doc == TeamPreSave(
                    [teams[t] EXCEPT !.members =
                       Push(@, [user |-> userId, role |-> r])], FALSE)
       IN TeamRes(200, "ok", [teams EXCEPT ![t] = doc],
                  UsersPushTeam(users, userId, t))

addMember(caller, t, userId, role) ==
  IF t \notin DOMAIN teams
  THEN TeamRes(404, "Team not found", teams, users)
  ELSE IF ~IsOwnerOrAdmin(teams[t], caller) /\ ~IsGlobalAdmin(caller)
  THEN TeamRes(403, "Not authorized to add members to this team",
               teams, users)
  ELSE IF userId \notin DOMAIN users
  THEN TeamRes(404, "User not found", teams, users)
  ELSE IF HasMember(teams[t].members, userId)
  THEN TeamRes(400, "User is already a member of this team", teams, users)
  ELSE LET r   == IF role = NoRole THEN "member" ELSE role
           doc == TeamPreSave(
                    [teams[t] EXCEPT !.members =
                       Push(@, [user |-> userId, role |-> r])], FALSE)
       IN TeamRes(200, "ok", [teams EXCEPT ![t] = doc],
                  UsersPushTeam(users, userId, t))

\* removeMember without the 'cannot remove owner' test
removeMember_NoOwnerGuard(caller, t, userId) ==
  IF t \notin DOMAIN teams
  THEN TeamRes(404, "Team not found", teams, users)
  ELSE IF ~IsOwnerOrAdmin(teams[t], caller) /\ ~IsGlobalAdmin(caller)
  THEN TeamRes(403, "Not authorized to remove members from this team",
               teams, users)
  ELSE LET doc == TeamPreSave(
                    [teams[t] EXCEPT !.members =
                       SelectSeq(@, LAMBDA m : m.user # userId)], FALSE)
       IN TeamRes(200, "ok", [teams EXCEPT ![t] = doc],
                  UsersPullTeam(users, userId, t))

removeMember(caller, t, userId) ==
  IF t \notin DOMAIN teams
  THEN TeamRes(404, "Team not found", teams, users)
  ELSE IF ~IsOwnerOrAdmin(teams[t], caller) /\ ~IsGlobalAdmin(caller)
  THEN TeamRes(403, "Not authorized to remove members from this team",
               teams, users)
  ELSE IF teams[t].owner = userId
  THEN TeamRes(400, "Cannot remove team owner", teams, users)
  ELSE LET doc == TeamPreSave(
                    [teams[t] EXCEPT !.members =
                       SelectSeq(@, LAMBDA m : m.user # userId)], FALSE)
       IN TeamRes(200, "ok", [teams EXCEPT ![t] = doc],
                  UsersPullTeam(users, userId, t))

\* deleteTeam authorized like updateTeam: by membership role owner or admin
deleteTeam_ByMembershipRole(caller, t) ==
  IF t \notin DOMAIN teams
  THEN TeamRes(404, "Team not found", teams, users)
  ELSE IF ~IsOwnerOrAdmin(teams[t], caller) /\ ~IsGlobalAdmin(caller)
  THEN TeamRes(403, "Not authorized to delete this team", teams, users)
  ELSE TeamRes(200, "Team deleted successfully",
               [x \in DOMAIN teams \ {t} |-> teams[x]],
               [u \in DOMAIN users |->
                  [users[u] EXCEPT !.teams = Pull(@, t)]])

deleteTeam(caller, t) ==
  IF t \notin DOMAIN teams
  THEN TeamRes(404, "Team not found", teams, users)
  ELSE IF teams[t].owner # caller /\ ~IsGlobalAdmin(caller)
  THEN TeamRes(403, "Not authorized to delete this team", teams, users)
  ELSE TeamRes(200, "Team deleted successfully",
               [x \in DOMAIN teams \ {t} |-> teams[x]],
               [u \in DOMAIN users |->
                  [users[u] EXCEPT !.teams = Pull(@, t)]])

\* what a read handler sends: status, message and the `data` of the envelope
ReadRes(code, msg, data) == [code |-> code, msg |-> msg, data |-> data]

\* Team.find({'members.user': req.user.id}): the teams holding a membership
\* record of the caller (by id; the answer carries the documents)
getTeams(caller) ==
  ReadRes(200, "ok", {t \in DOMAIN teams : HasMember(teams[t].members, caller)})

\* getTeam whose membership test looks at team.owner only
getTeam_OwnerOnly(caller, t) ==
  IF t \notin DOMAIN teams
  THEN ReadRes(404, "Team not found", None)
  ELSE IF teams[t].owner # caller /\ ~IsGlobalAdmin(caller)
  THEN ReadRes(403, "Not authorized to access this team", None)
  ELSE ReadRes(200, "ok", teams[t])

getTeam(caller, t) ==
  IF t \notin DOMAIN teams
  THEN ReadRes(404, "Team not found", None)
  ELSE IF ~HasMember(teams[t].members, caller) /\ ~IsGlobalAdmin(caller)
  THEN ReadRes(403, "Not authorized to access this team", None)
  ELSE ReadRes(200, "ok", teams[t])

\* ------------------------------------------------------ requests in flight
\* A handler runs until its next await; the requests being served take their
\* steps in any order. inflight[s] is the request of connection s: the handler
\* (op), the await it is at (pc) and what the handler holds in its local
\* variables. For a team handler: the team and the user its writes are about
\* (team, user), req.body.role (role), the team document addMember or
\* removeMember loaded (doc) and whether a save has raised the stored
\* document's __v since (stale). For the other handlers, the local variables
\* the handler still reads from that await on: req.user.id (caller), the
\* task (task), req.body or req.query (body, query), the task document loaded
\* (tdoc), the comment or attachment (item), req.body.content (text), the
\* outcome of comparePassword (ok), the email and password of register
\* (email, password) and the page Task.find gave (items).
Slots == 1..MaxInflight
NoDoc == [owner |-> None, members |-> <<>>]
Idle ==
  [op |-> "none", pc |-> "idle", team |-> None, user |-> None,
   role |-> NoRole, doc |-> NoDoc, stale |-> FALSE]

\* connection s serves no request
Free(s) == inflight[s].op = "none"

\* res.status(code).json(...): the request of connection s is over
Respond(s, op, code, msg) ==
  /\ inflight' = [inflight EXCEPT ![s] = Idle]
  /\ last' = [op |-> op, task |-> None, code |-> code, msg |-> msg]

\* the response of a task handler about task id
RespondTask(s, op, id, code, msg) ==
  /\ inflight' = [inflight EXCEPT ![s] = Idle]
  /\ last' = [op |-> op, task |-> id, code |-> code, msg |-> msg]

\* the handler of connection s goes on to its next await
Await(s, req) ==
  /\ inflight' = [inflight EXCEPT ![s] = req]
  /\ UNCHANGED last

\* the request of connection s is handler op at await pc
At(s, op, pc) == inflight[s].op = op /\ inflight[s].pc = pc

\* the requests of handler op that are at one of the awaits pcs
Pending(op, pcs) ==
  Cardinality({s \in Slots : inflight[s].op = op /\ inflight[s].pc \in pcs})

\* a save of team t by connection s has incremented __v: the removeMember
\* requests that loaded the document before hold an old version
Outdated(s, t) ==
  [x \in Slots |->
     IF x # s /\ At(x, "removeMember", "save") /\ inflight[x].team = t
     THEN [inflight[x] EXCEPT !.stale = TRUE]
     ELSE inflight[x]]

\* no request is being served
Quiescent == \A s \in Slots : Free(s)

\* ----------------------------------------------------------- team actions
\* createTeam: Team.create
CreateTeamInsert(s, caller) ==
  /\ Free(s)
  /\ nextTeamId <= MaxTeams
  /\ teams' = teams @@
       (nextTeamId :> TeamPreSave([owner |-> caller, members |-> <<>>], TRUE))
  /\ nextTeamId' = nextTeamId + 1
  /\ Await(s, [Idle EXCEPT !.op = "createTeam", !.pc = "pushUser",
                           !.team = nextTeamId, !.user = caller])
  /\ UNCHANGED <<users, nextUserId, tasks, nextTaskId, now, collabVars>>

\* createTeam: User.findByIdAndUpdate(req.user.id, {$push: {teams}})
CreateTeamPushUser(s) ==
  /\ At(s, "createTeam", "pushUser")
  /\ users' = UsersPushTeam(users, inflight[s].user, inflight[s].team)
  /\ Await(s, [inflight[s] EXCEPT !.pc = "populate"])
  /\ UNCHANGED <<nextUserId, teams, nextTeamId, tasks, nextTaskId, now,
                 collabVars>>

\* createTeam: Team.findById(team._id).populate(...), then the response
CreateTeamRespond(s) ==
  /\ At(s, "createTeam", "populate")
  /\ Respond(s, "createTeam", 201, "ok")
  /\ UNCHANGED <<users, nextUserId, teams, nextTeamId, tasks, nextTaskId, now,
                 collabVars>>

CreateTeamRun(s) == CreateTeamPushUser(s) \/ CreateTeamRespond(s)

\* updateTeam: Team.findById and the tests on the document loaded
UpdateTeamFind(s, caller, t) ==
  /\ Free(s)
  /\ IF t \notin DOMAIN teams
     THEN Respond(s, "updateTeam", 404, "Team not found")
     ELSE IF ~IsOwnerOrAdmin(teams[t], caller) /\ ~IsGlobalAdmin(caller)
     THEN Respond(s, "updateTeam", 403, "Not authorized to update this team")
     ELSE Await(s, [Idle EXCEPT !.op = "updateTeam", !.pc = "update",
                               !.team = t])
  /\ UNCHANGED <<users, nextUserId, teams, nextTeamId, tasks, nextTaskId, now,
                 collabVars>>

\* updateTeam: Team.findByIdAndUpdate of name and description (null when the
\* team is gone), then the response
UpdateTeamRun(s) ==
  /\ At(s, "updateTeam", "update")
  /\ Respond(s, "updateTeam", 200, "ok")
  /\ UNCHANGED <<users, nextUserId, teams, nextTeamId, tasks, nextTaskId, now,
                 collabVars>>

\* addMember: Team.findById and the tests on the document loaded
AddMemberFind(s, caller, t, userId, role) ==
  /\ Free(s)
  /\ IF t \notin DOMAIN teams
     THEN Respond(s, "addMember", 404, "Team not found")
     ELSE IF ~IsOwnerOrAdmin(teams[t], caller) /\ ~IsGlobalAdmin(caller)
     THEN Respond(s, "addMember", 403,
                  "Not authorized to add members to this team")
     ELSE Await(s, [Idle EXCEPT !.op = "addMember", !.pc = "findUser", !.team = t,
                               !.user = userId, !.role = role,
                               !.doc = teams[t]])
  /\ UNCHANGED <<users, nextUserId, teams, nextTeamId, tasks, nextTaskId, now,
                 collabVars>>

\* addMember: User.findById and the membership test on the document loaded
AddMemberCheck(s) ==
  /\ At(s, "addMember", "findUser")
  /\ IF inflight[s].user \notin DOMAIN users
     THEN Respond(s, "addMember", 404, "User not found")
     ELSE IF HasMember(inflight[s].doc.members, inflight[s].user)
     THEN Respond(s, "addMember", 400,
                  "User is already a member of this team")
     ELSE Await(s, [inflight[s] EXCEPT !.pc = "save"])
  /\ UNCHANGED <<users, nextUserId, teams, nextTeamId, tasks, nextTaskId, now,
                 collabVars>>

\* addMember: team.save() after members.push: the update sent is the $push of
\* the new record with $inc of __v, no version in its filter; it fails when
\* the document is gone
AddMemberSave(s) ==
  /\ At(s, "addMember", "save")
  /\ LET t == inflight[s].team
         r == IF inflight[s].role = NoRole THEN "member" ELSE inflight[s].role
     IN IF t \notin DOMAIN teams
        THEN /\ Respond(s, "addMember", 500, "No matching document found")
             /\ UNCHANGED teams
        ELSE /\ teams' = [teams EXCEPT ![t].members =
                            Push(@, [user |-> inflight[s].user, role |-> r])]
             /\ inflight' = [Outdated(s, t) EXCEPT
                               ![s] = [inflight[s] EXCEPT !.pc = "pushUser"]]
             /\ UNCHANGED last
  /\ UNCHANGED <<users, nextUserId, nextTeamId, tasks, nextTaskId, now,
                 collabVars>>

\* addMember: User.findByIdAndUpdate(userId, {$push: {teams}})
AddMemberPushUser(s) ==
  /\ At(s, "addMember", "pushUser")
  /\ users' = UsersPushTeam(users, inflight[s].user, inflight[s].team)
  /\ Await(s, [inflight[s] EXCEPT !.pc = "populate"])
  /\ UNCHANGED <<nextUserId, teams, nextTeamId, tasks, nextTaskId, now,
                 collabVars>>

\* addMember: Team.findById(team._id).populate(...) (null when the team is
\* gone), then the response
AddMemberRespond(s) ==
  /\ At(s, "addMember", "populate")
  /\ Respond(s, "addMember", 200, "ok")
  /\ UNCHANGED <<users, nextUserId, teams, nextTeamId, tasks, nextTaskId, now,
                 collabVars>>

AddMemberRun(s) ==
  \/ AddMemberCheck(s)
  \/ AddMemberSave(s)
  \/ AddMemberPushUser(s)
  \/ AddMemberRespond(s)

\* removeMember: Team.findById and the tests on the document loaded
RemoveMemberFind(s, caller, t, userId) ==
  /\ Free(s)
  /\ IF t \notin DOMAIN teams
     THEN Respond(s, "removeMember", 404, "Team not found")
     ELSE IF ~IsOwnerOrAdmin(teams[t], caller) /\ ~IsGlobalAdmin(caller)
     THEN Respond(s, "removeMember", 403,
                  "Not authorized to remove members from this team")
     ELSE IF teams[t].owner = userId
     THEN Respond(s, "removeMember", 400, "Cannot remove team owner")
     ELSE Await(s, [Idle EXCEPT !.op = "removeMember", !.pc = "save", !.team = t,
                               !.user = userId, !.doc = teams[t]])
  /\ UNCHANGED <<users, nextUserId, teams, nextTeamId, tasks, nextTaskId, now,
                 collabVars>>

\* removeMember: team.save() after team.members = team.members.filter(...).
\* A filter that drops a record sends $set of the whole array with the loaded
\* __v in the filter and fails when the document is gone or its __v has moved;
\* a filter that drops nothing sends no update and fails when the document
\* is gone
RemoveMemberSave(s) ==
  /\ At(s, "removeMember", "save")
  /\ LET t    == inflight[s].team
         kept == SelectSeq(inflight[s].doc.members,
                           LAMBDA m : m.user # inflight[s].user)
     IN IF t \notin DOMAIN teams
        THEN /\ Respond(s, "removeMember", 500,
                        IF kept = inflight[s].doc.members
                        THEN "No document found for query"
                        ELSE "No matching document found")
             /\ UNCHANGED teams
        ELSE IF kept = inflight[s].doc.members
        THEN /\ Await(s, [inflight[s] EXCEPT !.pc = "pullUser"])
             /\ UNCHANGED teams
        ELSE IF inflight[s].stale
        THEN /\ Respond(s, "removeMember", 500, "No matching document found")
             /\ UNCHANGED teams
        ELSE /\ teams' = [teams EXCEPT ![t].members = kept]
             /\ inflight' = [Outdated(s, t) EXCEPT
                               ![s] = [inflight[s] EXCEPT !.pc = "pullUser"]]
             /\ UNCHANGED last
  /\ UNCHANGED <<users, nextUserId, nextTeamId, tasks, nextTaskId, now,
                 collabVars>>

\* removeMember: User.findByIdAndUpdate(userId, {$pull: {teams}})
RemoveMemberPullUser(s) ==
  /\ At(s, "removeMember", "pullUser")
  /\ users' = UsersPullTeam(users, inflight[s].user, inflight[s].team)
  /\ Await(s, [inflight[s] EXCEPT !.pc = "populate"])
  /\ UNCHANGED <<nextUserId, teams, nextTeamId, tasks, nextTaskId, now,
                 collabVars>>

\* removeMember: Team.findById(team._id).populate(...), then the response
RemoveMemberRespond(s) ==
  /\ At(s, "removeMember", "populate")
  /\ Respond(s, "removeMember", 200, "ok")
  /\ UNCHANGED <<users, nextUserId, teams, nextTeamId, tasks, nextTaskId, now,
                 collabVars>>

RemoveMemberRun(s) ==
  \/ RemoveMemberSave(s)
  \/ RemoveMemberPullUser(s)
  \/ RemoveMemberRespond(s)

\* deleteTeam: Team.findById and the tests on the document loaded
DeleteTeamFind(s, caller, t) ==
  /\ Free(s)
  /\ IF t \notin DOMAIN teams
     THEN Respond(s, "deleteTeam", 404, "Team not found")
     ELSE IF teams[t].owner # caller /\ ~IsGlobalAdmin(caller)
     THEN Respond(s, "deleteTeam", 403, "Not authorized to delete this team")
     ELSE Await(s, [Idle EXCEPT !.op = "deleteTeam", !.pc = "pullUsers",
                               !.team = t])
  /\ UNCHANGED <<users, nextUserId, teams, nextTeamId, tasks, nextTaskId, now,
                 collabVars>>

\* deleteTeam: User.updateMany({teams: id}, {$pull: {teams: id}})
DeleteTeamPullUsers(s) ==
  /\ At(s, "deleteTeam", "pullUsers")
  /\ users' = [u \in DOMAIN users |->
                 [users[u] EXCEPT !.teams = Pull(@, inflight[s].team)]]
  /\ Await(s, [inflight[s] EXCEPT !.pc = "deleteOne"])
  /\ UNCHANGED <<nextUserId, teams, nextTeamId, tasks, nextTaskId, now,
                 collabVars>>

\* deleteTeam: team.deleteOne() (nothing to delete when the team is gone),
\* then the response
DeleteTeamDeleteOne(s) ==
  /\ At(s, "deleteTeam", "deleteOne")
  /\ teams' = [x \in DOMAIN teams \ {inflight[s].team} |-> teams[x]]
  /\ Respond(s, "deleteTeam", 200, "Team deleted successfully")
  /\ UNCHANGED <<users, nextUserId, nextTeamId, tasks, nextTaskId, now,
                 collabVars>>

DeleteTeamRun(s) == DeleteTeamPullUsers(s) \/ DeleteTeamDeleteOne(s)

\* a read handler answers and writes nothing
ReadStep(op, r) ==
  /\ last' = Served(op, None, r)
  /\ UNCHANGED <<inflight,
                 users, nextUserId, teams, nextTeamId, tasks, nextTaskId, now,
                 collabVars>>

GetTeamsReq(caller) == ReadStep("getTeams", getTeams(caller))

GetTeamReq(caller, t) == ReadStep("getTeam", getTeam(caller, t))

\* ------------------------------------------------------------ Task model
TaskRes(code, msg, ts) == [code |-> code, msg |-> msg, tasks |-> ts]

\* taskSchema.pre('save'): refreshes updatedAt; stamps completedAt when the
\* status was modified to 'completed' and completedAt is not set yet
TaskPreSave(doc, statusModified, t) ==
  LET d == [doc EXCEPT !.updatedAt = t]
  IN IF statusModified /\ d.status = "completed" /\ d.completedAt = None
     THEN [d EXCEPT !.completedAt = t]
     ELSE d

\* the update document of Task.findByIdAndUpdate(id, req.body): every field
\* of the schema the body carries replaces the document's (completedAt: null
\* unsets it), no save hook runs. title, description, dueDate and tags are
\* read by no handler: not modelled.
ApplyBody(doc, body) ==
  [doc EXCEPT
     !.status      = IF body.status = NoStatus THEN @ ELSE body.status,
     !.priority    = IF body.priority = NoPriority THEN @ ELSE body.priority,
     !.assignedTo  = IF body.assignedTo = Absent THEN @ ELSE body.assignedTo,
     !.createdBy   = IF body.createdBy = Absent THEN @ ELSE body.createdBy,
     !.team        = IF body.team = Absent THEN @ ELSE body.team,
     !.createdAt   = IF body.createdAt = Absent THEN @ ELSE body.createdAt,
     !.updatedAt   = IF body.updatedAt = Absent THEN @ ELSE body.updatedAt,
     !.completedAt = IF body.completedAt = Absent THEN @ ELSE body.completedAt,
     !.comments    = IF body.comments = NoList THEN @ ELSE body.comments,
     !.attachments =
       IF body.attachments = NoList THEN @ ELSE body.attachments]

\* runValidators: the enum validators of the paths the update sets
ValidBody(body) ==
  /\ body.status \in Statuses \cup {NoStatus}
  /\ body.priority \in Priorities \cup {NoPriority}

\* the role test accepting every global role
MayUpdateTask_AnyRole(doc, caller) ==
  \/ doc.createdBy = caller
  \/ doc.assignedTo = caller
  \/ users[caller].role \in {"user", "admin"}

\* creator, assignee or global admin (updateTask and completeTask)
MayUpdateTask(doc, caller) ==
  \/ doc.createdBy = caller
  \/ doc.assignedTo = caller
  \/ IsGlobalAdmin(caller)

\* deleteTask with updateTask's rule: the assignee passes too
MayDeleteTask_Assignee(doc, caller) ==
  \/ doc.createdBy = caller
  \/ doc.assignedTo = caller
  \/ IsGlobalAdmin(caller)

\* creator or global admin (deleteTask)
MayDeleteTask(doc, caller) ==
  \/ doc.createdBy = caller
  \/ IsGlobalAdmin(caller)

\* ---------------------------------------------------------- task handlers
\* the fields of req.body createTask reads: title (always given, as the route
\* requires), priority, assignedTo and team; description, dueDate and tags are stored as given and
\* read by no handler: not modelled. The body's status is carried by the
\* request and not read.
\* Task.create validates the document: a missing title (which the route
\* lets no request carry) or a priority outside the enum throws and the
\* catch block answers 500
ValidCreate(body) ==
  body.title /\ body.priority \in Priorities \cup {NoPriority}

\* createTask handing the whole body to Task.create: the body's status is
\* stored
NewTask_BodySpread(caller, body, t) ==
  TaskPreSave(
    [status |-> IF body.status = NoStatus THEN "open" ELSE body.status,
     priority |-> IF body.priority = NoPriority THEN "medium"
                  ELSE body.priority,
     createdBy |-> caller,
     assignedTo |-> body.assignedTo, team |-> body.team,
     completedAt |-> None, createdAt |-> t, updatedAt |-> t,
     comments |-> <<>>, attachments |-> <<>>], body.status # NoStatus, t)

\* the document Task.create({title, ..., createdBy: req.user.id}) stores at
\* time t: status, createdAt and updatedAt by the schema's defaults
NewTask(caller, body, t) ==
  TaskPreSave(
    [status |-> "open",
     priority |-> IF body.priority = NoPriority THEN "medium"
                  ELSE body.priority,
     createdBy |-> caller,
     assignedTo |-> body.assignedTo, team |-> body.team,
     completedAt |-> None, createdAt |-> t, updatedAt |-> t,
     comments |-> <<>>, attachments |-> <<>>], FALSE, t)

createTaskFrom(caller, body) ==
  IF body.assignedTo # None /\ body.assignedTo \notin DOMAIN users
  THEN TaskRes(404, "Assigned user not found", tasks)
  ELSE IF body.team # None /\ body.team \notin DOMAIN teams
  THEN TaskRes(404, "Team not found", tasks)
  ELSE IF ~ValidCreate(body)
  THEN TaskRes(500, "Task validation failed", tasks)
  ELSE TaskRes(201, "ok",
               tasks @@ (nextTaskId :> NewTask(caller, body, now)))

\* a request body with a title and neither priority nor status
PlainBody(assignedTo, team) ==
  [title |-> TRUE, priority |-> NoPriority, status |-> NoStatus,
   assignedTo |-> assignedTo, team |-> team]

createTask(caller, assignedTo, team) ==
  createTaskFrom(caller, PlainBody(assignedTo, team))

updateTask(caller, id, body) ==
  IF id \notin DOMAIN tasks
  THEN TaskRes(404, "Task not found", tasks)
  ELSE IF ~MayUpdateTask(tasks[id], caller)
  THEN TaskRes(403, "Not authorized to update this task", tasks)
  ELSE IF ~ValidBody(body)
  THEN TaskRes(500, "Validation failed", tasks)
  ELSE TaskRes(200, "ok", [tasks EXCEPT ![id] = ApplyBody(@, body)])

\* completeTask writing the status alone, past the save hook
Completed_StatusOnly(loaded, t) == [loaded EXCEPT !.status = "completed"]

\* the document completeTask saves: the document loaded with status =
\* 'completed' and completedAt = Date.now(), through the save hook
Completed(loaded, t) ==
  TaskPreSave([loaded EXCEPT !.status = "completed", !.completedAt = t],
              loaded.status # "completed", t)

completeTask(caller, id) ==
  IF id \notin DOMAIN tasks
  THEN TaskRes(404, "Task not found", tasks)
  ELSE IF ~MayUpdateTask(tasks[id], caller)
  THEN TaskRes(403, "Not authorized to complete this task", tasks)
  ELSE TaskRes(200, "ok",
               [tasks EXCEPT ![id] = Completed(tasks[id], now)])

deleteTask(caller, id) ==
  IF id \notin DOMAIN tasks
  THEN TaskRes(404, "Task not found", tasks)
  ELSE IF ~MayDeleteTask(tasks[id], caller)
  THEN TaskRes(403, "Not authorized to delete this task", tasks)
  ELSE TaskRes(200, "Task deleted successfully",
               [x \in DOMAIN tasks \ {id} |-> tasks[x]])

\* -------------------------------------------------------------- getTasks
\* A query parameter is <<>> when the query string has none and <<n>> when
\* its text is the decimal numeral of n. A number of the JSON answer is <<n>>,
\* and <<>> when JSON.stringify writes null for it (NaN, Infinity).
ParseParam(q, default) == IF q = <<>> THEN default ELSE q[1]

\* the orders Task.find().sort({createdAt: -1}) can give the tasks S: the
\* latest createdAt first, the tasks of one createdAt in any order
SortDesc(S) ==
  {seq \in [1..Cardinality(S) -> S] :
     /\ \A i, j \in DOMAIN seq : i # j => seq[i] # seq[j]
     /\ \A i, j \in DOMAIN seq :
          i < j => tasks[seq[i]].createdAt >= tasks[seq[j]].createdAt}

\* cursor.skip(n), n >= 0
Skip(seq, n) == SubSeq(seq, n + 1, Len(seq))

\* cursor.limit(n): 0 is no limit, a negative n is the limit -n
Limit(seq, n) ==
  LET k == IF n < 0 THEN -n ELSE n
  IN IF k = 0 \/ k >= Len(seq) THEN seq ELSE SubSeq(seq, 1, k)

\* Math.ceil(total / limit) as the JSON answer carries it, total >= 0
CeilDiv(total, limit) ==
  IF limit = 0 THEN <<>>
  ELSE IF limit > 0 THEN <<(total + limit - 1) \div limit>>
  ELSE <<-(total \div (-limit))>>

ListRes(code, msg, count, total, page, pages, data) ==
  [code |-> code, msg |-> msg, count |-> count, total |-> total,
   page |-> page, pages |-> pages, data |-> data]

\* the tasks the filter of a query matches
Matching(query) ==
  {id \in DOMAIN tasks :
     query.status = NoStatus \/ tasks[id].status = query.status}

\* priority, assignedTo, createdBy, team, search, sortBy and order of the
\* query are left out: the default order, filtered by status or not at all;
\* sorted is the order the database gives the matching tasks, one of
\* SortDesc(Matching(query))
getTasks(query, sorted) ==
  LET page     == ParseParam(query.page, DefaultPage)
      limit    == ParseParam(query.limit, DefaultLimit)
      matching == Matching(query)
      skip     == (page - 1) * limit
      total    == Cardinality(matching)
  IN IF skip < 0
     THEN ListRes(500, "skip value must be >= 0", 0, 0, <<>>, <<>>, <<>>)
     ELSE LET items == Limit(Skip(sorted, skip), limit)
          IN ListRes(200, "ok", Len(items), total, <<page>>,
                     CeilDiv(total, limit), items)

\* ------------------------------------------------------- request bodies
\* request bodies of updateTask
BodyStatuses == {NoStatus, "in-progress", "completed"}
\* a request body of updateTask that carries no field of the schema
NoFields ==
  [status |-> NoStatus, priority |-> NoPriority, assignedTo |-> Absent,
   createdBy |-> Absent, team |-> Absent, createdAt |-> Absent,
   updatedAt |-> Absent, completedAt |-> Absent, comments |-> NoList,
   attachments |-> NoList]

\* request bodies of updateTask that carry status, assignedTo and createdBy
Bodies ==
  {[NoFields EXCEPT !.status = st, !.assignedTo = a, !.createdBy = c] :
     st \in BodyStatuses, a \in {Absent} \cup (1..NumUsers),
     c \in {Absent} \cup (1..NumUsers)}

\* the bodies of Bodies that carry at most one field; what a body with
\* several fields writes, these write one request after the other
OneFieldBodies ==
  {b \in Bodies :
     Cardinality({f \in {"status", "assignedTo", "createdBy"} :
                    b[f] # NoFields[f]}) <= 1}

\* request bodies of updateTask that carry the reference arrays
RefBodies ==
  {[NoFields EXCEPT !.comments = cs, !.attachments = as] :
     cs \in {NoList, <<>>}, as \in {NoList, <<>>}}

\* the dates a request body carries
Dates == 1..MaxTime

\* request bodies of updateTask that carry the other fields of the schema:
\* a status and a priority, a status or a priority outside the enum, a team,
\* completedAt null or a date, updatedAt, createdAt
FieldBodies ==
  {[NoFields EXCEPT !.status = "in-progress", !.priority = "urgent"],
   [NoFields EXCEPT !.status = "bogus"],
   [NoFields EXCEPT !.priority = "bogus"],
   [NoFields EXCEPT !.completedAt = None]}
    \cup {[NoFields EXCEPT !.team = t] : t \in TeamIds}
    \cup {[NoFields EXCEPT !.completedAt = d] : d \in Dates}
    \cup {[NoFields EXCEPT !.updatedAt = d] : d \in Dates}
    \cup {[NoFields EXCEPT !.createdAt = d] : d \in Dates}

\* request bodies of createTask that reach the handler: the route's
\* taskValidation and validate answer a body without a title themselves, so
\* every body served has one; no priority, one of the enum or one outside it;
\* no status or 'completed'; no assignee or a user id; no team or a team id
CreateBodies ==
  [title : {TRUE}, priority : {NoPriority, "high", "bogus"},
   status : {NoStatus, "completed"},
   assignedTo : {None} \cup UserIds, team : {None} \cup TeamIds]

\* ----------------------------------------------------------- task actions
\* doc.save(): the update sets the paths whose value differs from the one
\* loaded, on the document as it is stored now
SaveModified(stored, loaded, local) ==
  [f \in DOMAIN stored |->
     IF local[f] # loaded[f] THEN local[f] ELSE stored[f]]

\* createTask: User.findById(assignedTo), when the body names an assignee
CreateTaskFindUser(s, caller, body) ==
  /\ Free(s)
  /\ nextTaskId + Pending("createTask", {"findTeam", "create"}) <= MaxTasks
  /\ IF body.assignedTo # None /\ body.assignedTo \notin DOMAIN users
     THEN RespondTask(s, "createTask", None, 404, "Assigned user not found")
     ELSE Await(s, [op |-> "createTask", pc |-> "findTeam", caller |-> caller,
                   body |-> body])
  /\ UNCHANGED <<users, nextUserId, teams, nextTeamId, tasks, nextTaskId, now,
                 collabVars>>

\* createTask: Team.findById(team), when the body names a team; then the
\* handler builds the document of Task.create at the time it is then
CreateTaskFindTeam(s) ==
  /\ At(s, "createTask", "findTeam")
  /\ LET body == inflight[s].body
     IN IF body.team # None /\ body.team \notin DOMAIN teams
        THEN RespondTask(s, "createTask", None, 404, "Team not found")
        ELSE Await(s, [op |-> "createTask", pc |-> "create",
                      caller |-> inflight[s].caller, body |-> body,
                      at |-> now])
  /\ UNCHANGED <<users, nextUserId, teams, nextTeamId, tasks, nextTaskId, now,
                 collabVars>>

\* createTask: Task.create, which validates the document first; the document
\* and its createdAt and updatedAt were built when the handler made the call
CreateTaskInsert(s) ==
  /\ At(s, "createTask", "create")
  /\ LET body == inflight[s].body
     IN IF ~ValidCreate(body)
        THEN /\ RespondTask(s, "createTask", None, 500,
                            "Task validation failed")
             /\ UNCHANGED <<tasks, nextTaskId>>
        ELSE /\ tasks' = tasks @@
                  (nextTaskId :> NewTask(inflight[s].caller, body,
                                         inflight[s].at))
             /\ nextTaskId' = nextTaskId + 1
             /\ Await(s, [op |-> "createTask", pc |-> "populate",
                          task |-> nextTaskId])
  /\ UNCHANGED <<users, nextUserId, teams, nextTeamId, now, collabVars>>

\* createTask: Task.findById(task._id).populate(...) (null when the task is
\* gone), then the response
CreateTaskRespond(s) ==
  /\ At(s, "createTask", "populate")
  /\ RespondTask(s, "createTask", inflight[s].task, 201, "ok")
  /\ UNCHANGED <<users, nextUserId, teams, nextTeamId, tasks, nextTaskId, now,
                 collabVars>>

CreateTaskRun(s) ==
  \/ CreateTaskFindTeam(s)
  \/ CreateTaskInsert(s)
  \/ CreateTaskRespond(s)

\* updateTask: Task.findById and the tests on the document loaded
UpdateTaskFind(s, caller, id, body) ==
  /\ Free(s)
  /\ IF id \notin DOMAIN tasks
     THEN RespondTask(s, "updateTask", id, 404, "Task not found")
     ELSE IF ~MayUpdateTask(tasks[id], caller)
     THEN RespondTask(s, "updateTask", id, 403,
                      "Not authorized to update this task")
     ELSE Await(s, [op |-> "updateTask", pc |-> "update", task |-> id,
                   body |-> body])
  /\ UNCHANGED <<users, nextUserId, teams, nextTeamId, tasks, nextTaskId, now,
                 collabVars>>

\* updateTask: Task.findByIdAndUpdate(id, req.body, {runValidators}): the
\* validators run before the update is sent; the update of a task that is
\* gone writes nothing and gives null; then the response
UpdateTaskRun(s) ==
  /\ At(s, "updateTask", "update")
  /\ LET id   == inflight[s].task
         body == inflight[s].body
     IN IF ~ValidBody(body)
        THEN /\ RespondTask(s, "updateTask", id, 500, "Validation failed")
             /\ UNCHANGED tasks
        ELSE /\ tasks' = IF id \in DOMAIN tasks
                         THEN [tasks EXCEPT ![id] = ApplyBody(@, body)]
                         ELSE tasks
             /\ RespondTask(s, "updateTask", id, 200, "ok")
  /\ UNCHANGED <<users, nextUserId, teams, nextTeamId, nextTaskId, now,
                 collabVars>>

\* completeTask: Task.findById and the tests on the document loaded; then
\* the handler reads Date.now() and calls task.save()
CompleteTaskFind(s, caller, id) ==
  /\ Free(s)
  /\ IF id \notin DOMAIN tasks
     THEN RespondTask(s, "completeTask", id, 404, "Task not found")
     ELSE IF ~MayUpdateTask(tasks[id], caller)
     THEN RespondTask(s, "completeTask", id, 403,
                      "Not authorized to complete this task")
     ELSE Await(s, [op |-> "completeTask", pc |-> "save", task |-> id,
                   tdoc |-> tasks[id], at |-> now])
  /\ UNCHANGED <<users, nextUserId, teams, nextTeamId, tasks, nextTaskId, now,
                 collabVars>>

\* completeTask: task.save() after status = 'completed' and completedAt =
\* Date.now(), both set before the save is awaited; it fails when the
\* document is gone
CompleteTaskSave(s) ==
  /\ At(s, "completeTask", "save")
  /\ LET id     == inflight[s].task
         loaded == inflight[s].tdoc
     IN IF id \notin DOMAIN tasks
        THEN /\ RespondTask(s, "completeTask", id, 500,
                            "No document found for query")
             /\ UNCHANGED tasks
        ELSE /\ tasks' = [tasks EXCEPT ![id] =
                            SaveModified(@, loaded,
                                         Completed(loaded, inflight[s].at))]
             /\ Await(s, [op |-> "completeTask", pc |-> "populate",
                          task |-> id])
  /\ UNCHANGED <<users, nextUserId, teams, nextTeamId, nextTaskId, now,
                 collabVars>>

\* completeTask: Task.findById(task._id).populate(...) (null when the task is
\* gone), then the response
CompleteTaskRespond(s) ==
  /\ At(s, "completeTask", "populate")
  /\ RespondTask(s, "completeTask", inflight[s].task, 200, "ok")
  /\ UNCHANGED <<users, nextUserId, teams, nextTeamId, tasks, nextTaskId, now,
                 collabVars>>

CompleteTaskRun(s) == CompleteTaskSave(s) \/ CompleteTaskRespond(s)

\* deleteTask: Task.findById and the tests on the document loaded
DeleteTaskFind(s, caller, id) ==
  /\ Free(s)
  /\ IF id \notin DOMAIN tasks
     THEN RespondTask(s, "deleteTask", id, 404, "Task not found")
     ELSE IF ~MayDeleteTask(tasks[id], caller)
     THEN RespondTask(s, "deleteTask", id, 403,
                      "Not authorized to delete this task")
     ELSE Await(s, [op |-> "deleteTask", pc |-> "deleteOne", task |-> id])
  /\ UNCHANGED <<users, nextUserId, teams, nextTeamId, tasks, nextTaskId, now,
                 collabVars>>

\* deleteTask: task.deleteOne() (nothing to delete when the task is gone),
\* then the response
DeleteTaskRun(s) ==
  /\ At(s, "deleteTask", "deleteOne")
  /\ tasks' = [x \in DOMAIN tasks \ {inflight[s].task} |-> tasks[x]]
  /\ RespondTask(s, "deleteTask", inflight[s].task, 200,
                 "Task deleted successfully")
  /\ UNCHANGED <<users, nextUserId, teams, nextTeamId, nextTaskId, now,
                 collabVars>>

\* --------------------------------------------------------- Comment model
CommentRes(code, msg, ts, cs) ==
  [code |-> code, msg |-> msg, tasks |-> ts, comments |-> cs]

\* Task.findByIdAndUpdate(id, {$pull: {comments: c}}): no save hook, no-op
\* when id names no task
TasksPullComment(ts, id, c) ==
  IF id \in DOMAIN ts THEN [ts EXCEPT ![id].comments = Pull(@, c)] ELSE ts

\* the author test extended to the creator of the parent task
MayEditComment_TaskCreator(doc, caller) ==
  \/ doc.author = caller
  \/ IsGlobalAdmin(caller)
  \/ (doc.task \in DOMAIN tasks /\ tasks[doc.task].createdBy = caller)

\* author or global admin (updateComment and deleteComment)
MayEditComment(doc, caller) ==
  \/ doc.author = caller
  \/ IsGlobalAdmin(caller)

addComment(caller, taskId, content) ==
  IF taskId \notin DOMAIN tasks
  THEN CommentRes(404, "Task not found", tasks, comments)
  ELSE LET id  == nextCommentId
           doc == [task |-> taskId, author |-> caller, content |-> content]
           t   == TaskPreSave(
                    [tasks[taskId] EXCEPT !.comments = Push(@, id)],
                    FALSE, now)
       IN CommentRes(201, "ok", [tasks EXCEPT ![taskId] = t],
                     comments @@ (id :> doc))

updateComment(caller, id, content) ==
  IF id \notin DOMAIN comments
  THEN CommentRes(404, "Comment not found", tasks, comments)
  ELSE IF ~MayEditComment(comments[id], caller)
  THEN CommentRes(403, "Not authorized to update this comment",
                  tasks, comments)
  ELSE CommentRes(200, "ok", tasks,
                  [comments EXCEPT ![id].content = content])

\* deleteComment looking the parent task up first, as addComment does
deleteComment_TaskFirst(caller, id) ==
  IF id \notin DOMAIN comments
  THEN CommentRes(404, "Comment not found", tasks, comments)
  ELSE IF comments[id].task \notin DOMAIN tasks
  THEN CommentRes(404, "Task not found", tasks, comments)
  ELSE IF ~MayEditComment(comments[id], caller)
  THEN CommentRes(403, "Not authorized to delete this comment",
                  tasks, comments)
  ELSE CommentRes(200, "Comment deleted successfully",
                  TasksPullComment(tasks, comments[id].task, id),
                  [x \in DOMAIN comments \ {id} |-> comments[x]])

deleteComment(caller, id) ==
  IF id \notin DOMAIN comments
  THEN CommentRes(404, "Comment not found", tasks, comments)
  ELSE IF ~MayEditComment(comments[id], caller)
  THEN CommentRes(403, "Not authorized to delete this comment",
                  tasks, comments)
  ELSE CommentRes(200, "Comment deleted successfully",
                  TasksPullComment(tasks, comments[id].task, id),
                  [x \in DOMAIN comments \ {id} |-> comments[x]])

\* -------------------------------------------------------- comment actions
\* addComment: Task.findById
AddCommentFind(s, caller, taskId, content) ==
  /\ Free(s)
  /\ nextCommentId + Pending("addComment", {"create"}) <= MaxComments
  /\ IF taskId \notin DOMAIN tasks
     THEN Respond(s, "addComment", 404, "Task not found")
     ELSE Await(s, [op |-> "addComment", pc |-> "create", caller |-> caller,
                   task |-> taskId, text |-> content,
                   tdoc |-> tasks[taskId]])
  /\ UNCHANGED <<users, nextUserId, teams, nextTeamId, tasks, nextTaskId, now,
                 collabVars>>

\* addComment: Comment.create; then the handler pushes the comment's id and
\* calls task.save(), whose hook reads Date.now()
AddCommentCreate(s) ==
  /\ At(s, "addComment", "create")
  /\ comments' = comments @@
       (nextCommentId :> [task |-> inflight[s].task,
                          author |-> inflight[s].caller,
                          content |-> inflight[s].text])
  /\ nextCommentId' = nextCommentId + 1
  /\ Await(s, [op |-> "addComment", pc |-> "save",
               task |-> inflight[s].task, tdoc |-> inflight[s].tdoc,
               item |-> nextCommentId, at |-> now])
  /\ UNCHANGED <<users, nextUserId, teams, nextTeamId, tasks, nextTaskId, now,
                 attachments, nextAttachmentId, blobs, logged>>

\* addComment: task.save() after comments.push: the update sent is the $push
\* of the comment's id with what the save hook modified; it fails when the
\* task is gone
AddCommentSave(s) ==
  /\ At(s, "addComment", "save")
  /\ LET id     == inflight[s].task
         loaded == inflight[s].tdoc
     IN IF id \notin DOMAIN tasks
        THEN /\ Respond(s, "addComment", 500, "No matching document found")
             /\ UNCHANGED tasks
        ELSE /\ tasks' = [tasks EXCEPT ![id] =
                  [SaveModified(@, loaded,
                                TaskPreSave(loaded, FALSE, inflight[s].at))
                     EXCEPT !.comments = Push(@, inflight[s].item)]]
             /\ Await(s, [op |-> "addComment", pc |-> "populate",
                          item |-> inflight[s].item])
  /\ UNCHANGED <<users, nextUserId, teams, nextTeamId, nextTaskId, now,
                 collabVars>>

\* addComment: Comment.findById(comment._id).populate(...) (null when the
\* comment is gone), then the response
AddCommentRespond(s) ==
  /\ At(s, "addComment", "populate")
  /\ Respond(s, "addComment", 201, "ok")
  /\ UNCHANGED <<users, nextUserId, teams, nextTeamId, tasks, nextTaskId, now,
                 collabVars>>

AddCommentRun(s) ==
  \/ AddCommentCreate(s)
  \/ AddCommentSave(s)
  \/ AddCommentRespond(s)

\* updateComment: Comment.findById and the tests on the document loaded
UpdateCommentFind(s, caller, id, content) ==
  /\ Free(s)
  /\ IF id \notin DOMAIN comments
     THEN Respond(s, "updateComment", 404, "Comment not found")
     ELSE IF ~MayEditComment(comments[id], caller)
     THEN Respond(s, "updateComment", 403,
                  "Not authorized to update this comment")
     ELSE Await(s, [op |-> "updateComment", pc |-> "update", item |-> id,
                   text |-> content])
  /\ UNCHANGED <<users, nextUserId, teams, nextTeamId, tasks, nextTaskId, now,
                 collabVars>>

\* updateComment: Comment.findByIdAndUpdate(id, {content}) (null when the
\* comment is gone), then the response
UpdateCommentRun(s) ==
  /\ At(s, "updateComment", "update")
  /\ comments' =
       IF inflight[s].item \in DOMAIN comments
       THEN [comments EXCEPT ![inflight[s].item].content = inflight[s].text]
       ELSE comments
  /\ Respond(s, "updateComment", 200, "ok")
  /\ UNCHANGED <<users, nextUserId, teams, nextTeamId, tasks, nextTaskId, now,
                 nextCommentId, attachments, nextAttachmentId, blobs, logged>>

\* deleteComment: Comment.findById and the tests on the document loaded
DeleteCommentFind(s, caller, id) ==
  /\ Free(s)
  /\ IF id \notin DOMAIN comments
     THEN Respond(s, "deleteComment", 404, "Comment not found")
     ELSE IF ~MayEditComment(comments[id], caller)
     THEN Respond(s, "deleteComment", 403,
                  "Not authorized to delete this comment")
     ELSE Await(s, [op |-> "deleteComment", pc |-> "pullTask", item |-> id,
                   task |-> comments[id].task])
  /\ UNCHANGED <<users, nextUserId, teams, nextTeamId, tasks, nextTaskId, now,
                 collabVars>>

\* deleteComment: Task.findByIdAndUpdate(comment.task, {$pull: {comments}})
DeleteCommentPullTask(s) ==
  /\ At(s, "deleteComment", "pullTask")
  /\ tasks' = TasksPullComment(tasks, inflight[s].task, inflight[s].item)
  /\ Await(s, [op |-> "deleteComment", pc |-> "deleteOne",
               item |-> inflight[s].item])
  /\ UNCHANGED <<users, nextUserId, teams, nextTeamId, nextTaskId, now,
                 collabVars>>

\* deleteComment: comment.deleteOne() (nothing to delete when the comment is
\* gone), then the response
DeleteCommentDeleteOne(s) ==
  /\ At(s, "deleteComment", "deleteOne")
  /\ comments' = [x \in DOMAIN comments \ {inflight[s].item} |-> comments[x]]
  /\ Respond(s, "deleteComment", 200, "Comment deleted successfully")
  /\ UNCHANGED <<users, nextUserId, teams, nextTeamId, tasks, nextTaskId, now,
                 nextCommentId, attachments, nextAttachmentId, blobs, logged>>

DeleteCommentRun(s) == DeleteCommentPullTask(s) \/ DeleteCommentDeleteOne(s)

\* ------------------------------------------------------ Attachment model
AttachmentRes(code, msg, ts, as, bs, lg) ==
  [code |-> code, msg |-> msg, tasks |-> ts, attachments |-> as,
   blobs |-> bs, logged |-> lg]

\* Task.findByIdAndUpdate(id, {$pull: {attachments: a}})
TasksPullAttachment(ts, id, a) ==
  IF id \in DOMAIN ts THEN [ts EXCEPT ![id].attachments = Pull(@, a)] ELSE ts

\* uploader or global admin
MayDeleteAttachment(doc, caller) ==
  \/ doc.uploadedBy = caller
  \/ IsGlobalAdmin(caller)

\* filename, originalName, mimetype, size and path are stored as multer gives
\* them; the file of attachment a is the blob a
uploadAttachment(caller, taskId, hasFile) ==
  IF taskId \notin DOMAIN tasks
  THEN AttachmentRes(404, "Task not found", tasks, attachments, blobs, logged)
  ELSE IF ~hasFile
  THEN AttachmentRes(400, "Please upload a file",
                     tasks, attachments, blobs, logged)
  ELSE LET id  == nextAttachmentId
           doc == [task |-> taskId, uploadedBy |-> caller]
           t   == TaskPreSave(
                    [tasks[taskId] EXCEPT !.attachments = Push(@, id)],
                    FALSE, now)
       IN AttachmentRes(201, "ok", [tasks EXCEPT ![taskId] = t],
                        attachments @@ (id :> doc), blobs \cup {id}, logged)

\* deleteAttachment without the inner try/catch: a failing fs.unlink reaches
\* the outer catch, after the $pull and before deleteOne
deleteAttachment_UnlinkFatal(caller, id) ==
  IF id \notin DOMAIN attachments
  THEN AttachmentRes(404, "Attachment not found",
                     tasks, attachments, blobs, logged)
  ELSE IF ~MayDeleteAttachment(attachments[id], caller)
  THEN AttachmentRes(403, "Not authorized to delete this attachment",
                     tasks, attachments, blobs, logged)
  ELSE IF id \notin blobs
  THEN AttachmentRes(500, "ENOENT",
                     TasksPullAttachment(tasks, attachments[id].task, id),
                     attachments, blobs, logged)
  ELSE AttachmentRes(200, "Attachment deleted successfully",
                     TasksPullAttachment(tasks, attachments[id].task, id),
                     [x \in DOMAIN attachments \ {id} |-> attachments[x]],
                     blobs \ {id}, logged)

deleteAttachment(caller, id) ==
  IF id \notin DOMAIN attachments
  THEN AttachmentRes(404, "Attachment not found",
                     tasks, attachments, blobs, logged)
  ELSE IF ~MayDeleteAttachment(attachments[id], caller)
  THEN AttachmentRes(403, "Not authorized to delete this attachment",
                     tasks, attachments, blobs, logged)
  ELSE AttachmentRes(200, "Attachment deleted successfully",
                     TasksPullAttachment(tasks, attachments[id].task, id),
                     [x \in DOMAIN attachments \ {id} |-> attachments[x]],
                     blobs \ {id},
                     IF id \in blobs THEN logged ELSE logged + 1)

\* any authenticated caller; data is the id of the file sent
downloadAttachment(id) ==
  IF id \notin DOMAIN attachments
  THEN ReadRes(404, "Attachment not found", None)
  ELSE IF id \notin blobs
  THEN ReadRes(404, "File not found on server", None)
  ELSE ReadRes(200, "ok", id)

\* ----------------------------------------------------- attachment actions
\* uploadAttachment: Task.findById, then the test on req.file
UploadAttachmentFind(s, caller, taskId, hasFile) ==
  /\ Free(s)
  /\ nextAttachmentId + Pending("uploadAttachment", {"create"})
       <= MaxAttachments
  /\ IF taskId \notin DOMAIN tasks
     THEN Respond(s, "uploadAttachment", 404, "Task not found")
     ELSE IF ~hasFile
     THEN Respond(s, "uploadAttachment", 400, "Please upload a file")
     ELSE Await(s, [op |-> "uploadAttachment", pc |-> "create",
                   caller |-> caller, task |-> taskId,
                   tdoc |-> tasks[taskId]])
  /\ UNCHANGED <<users, nextUserId, teams, nextTeamId, tasks, nextTaskId, now,
                 collabVars>>

\* uploadAttachment: Attachment.create of the file multer stored; then the
\* handler pushes the attachment's id and calls task.save(), whose hook reads
\* Date.now()
UploadAttachmentCreate(s) ==
  /\ At(s, "uploadAttachment", "create")
  /\ attachments' = attachments @@
       (nextAttachmentId :> [task |-> inflight[s].task,
                             uploadedBy |-> inflight[s].caller])
  /\ blobs' = blobs \cup {nextAttachmentId}
  /\ nextAttachmentId' = nextAttachmentId + 1
  /\ Await(s, [op |-> "uploadAttachment", pc |-> "save",
               task |-> inflight[s].task, tdoc |-> inflight[s].tdoc,
               item |-> nextAttachmentId, at |-> now])
  /\ UNCHANGED <<users, nextUserId, teams, nextTeamId, tasks, nextTaskId, now,
                 comments, nextCommentId, logged>>

\* uploadAttachment: task.save() after attachments.push; it fails when the
\* task is gone
UploadAttachmentSave(s) ==
  /\ At(s, "uploadAttachment", "save")
  /\ LET id     == inflight[s].task
         loaded == inflight[s].tdoc
     IN IF id \notin DOMAIN tasks
        THEN /\ Respond(s, "uploadAttachment", 500,
                        "No matching document found")
             /\ UNCHANGED tasks
        ELSE /\ tasks' = [tasks EXCEPT ![id] =
                  [SaveModified(@, loaded,
                                TaskPreSave(loaded, FALSE, inflight[s].at))
                     EXCEPT !.attachments = Push(@, inflight[s].item)]]
             /\ Await(s, [op |-> "uploadAttachment", pc |-> "populate",
                          item |-> inflight[s].item])
  /\ UNCHANGED <<users, nextUserId, teams, nextTeamId, nextTaskId, now,
                 collabVars>>

\* uploadAttachment: Attachment.findById(attachment._id).populate(...), then
\* the response
UploadAttachmentRespond(s) ==
  /\ At(s, "uploadAttachment", "populate")
  /\ Respond(s, "uploadAttachment", 201, "ok")
  /\ UNCHANGED <<users, nextUserId, teams, nextTeamId, tasks, nextTaskId, now,
                 collabVars>>

UploadAttachmentRun(s) ==
  \/ UploadAttachmentCreate(s)
  \/ UploadAttachmentSave(s)
  \/ UploadAttachmentRespond(s)

\* deleteAttachment: Attachment.findById and the tests on the document loaded
DeleteAttachmentFind(s, caller, id) ==
  /\ Free(s)
  /\ IF id \notin DOMAIN attachments
     THEN Respond(s, "deleteAttachment", 404, "Attachment not found")
     ELSE IF ~MayDeleteAttachment(attachments[id], caller)
     THEN Respond(s, "deleteAttachment", 403,
                  "Not authorized to delete this attachment")
     ELSE Await(s, [op |-> "deleteAttachment", pc |-> "pullTask", item |-> id,
                   task |-> attachments[id].task])
  /\ UNCHANGED <<users, nextUserId, teams, nextTeamId, tasks, nextTaskId, now,
                 collabVars>>

\* deleteAttachment: Task.findByIdAndUpdate(task, {$pull: {attachments}})
DeleteAttachmentPullTask(s) ==
  /\ At(s, "deleteAttachment", "pullTask")
  /\ tasks' = TasksPullAttachment(tasks, inflight[s].task, inflight[s].item)
  /\ Await(s, [op |-> "deleteAttachment", pc |-> "unlink",
               item |-> inflight[s].item])
  /\ UNCHANGED <<users, nextUserId, teams, nextTeamId, nextTaskId, now,
                 collabVars>>

\* deleteAttachment: fs.unlink(attachment.path); a failure is logged and the
\* handler goes on
DeleteAttachmentUnlink(s) ==
  /\ At(s, "deleteAttachment", "unlink")
  /\ blobs' = blobs \ {inflight[s].item}
  /\ logged' = IF inflight[s].item \in blobs THEN logged ELSE logged + 1
  /\ Await(s, [inflight[s] EXCEPT !.pc = "deleteOne"])
  /\ UNCHANGED <<users, nextUserId, teams, nextTeamId, tasks, nextTaskId, now,
                 comments, nextCommentId, attachments, nextAttachmentId>>

\* deleteAttachment: attachment.deleteOne() (nothing to delete when the
\* attachment is gone), then the response
DeleteAttachmentDeleteOne(s) ==
  /\ At(s, "deleteAttachment", "deleteOne")
  /\ attachments' =
       [x \in DOMAIN attachments \ {inflight[s].item} |-> attachments[x]]
  /\ Respond(s, "deleteAttachment", 200, "Attachment deleted successfully")
  /\ UNCHANGED <<users, nextUserId, teams, nextTeamId, tasks, nextTaskId, now,
                 comments, nextCommentId, nextAttachmentId, blobs, logged>>

DeleteAttachmentRun(s) ==
  \/ DeleteAttachmentPullTask(s)
  \/ DeleteAttachmentUnlink(s)
  \/ DeleteAttachmentDeleteOne(s)

\* downloadAttachment: Attachment.findById
DownloadAttachmentFind(s, id) ==
  /\ Free(s)
  /\ IF id \notin DOMAIN attachments
     THEN Respond(s, "downloadAttachment", 404, "Attachment not found")
     ELSE Await(s, [op |-> "downloadAttachment", pc |-> "access",
                   item |-> id])
  /\ UNCHANGED <<users, nextUserId, teams, nextTeamId, tasks, nextTaskId, now,
                 collabVars>>

\* downloadAttachment: fs.access(attachment.path)
DownloadAttachmentAccess(s) ==
  /\ At(s, "downloadAttachment", "access")
  /\ IF inflight[s].item \in blobs
     THEN Await(s, [inflight[s] EXCEPT !.pc = "send"])
     ELSE Respond(s, "downloadAttachment", 404, "File not found on server")
  /\ UNCHANGED <<users, nextUserId, teams, nextTeamId, tasks, nextTaskId, now,
                 collabVars>>

\* downloadAttachment: res.sendFile(attachment.path) reads the file. A file
\* gone since fs.access gives an error with status 404 to next(), which the
\* error handler answers with that status or with 500
DownloadAttachmentSend(s) ==
  /\ At(s, "downloadAttachment", "send")
  /\ IF inflight[s].item \in blobs
     THEN Respond(s, "downloadAttachment", 200, "ok")
     ELSE \E code \in {404, 500} :
            Respond(s, "downloadAttachment", code,
                    "ENOENT: no such file or directory")
  /\ UNCHANGED <<users, nextUserId, teams, nextTeamId, tasks, nextTaskId, now,
                 collabVars>>

DownloadAttachmentRun(s) ==
  DownloadAttachmentAccess(s) \/ DownloadAttachmentSend(s)

\* the file of an attachment disappears from the disk behind the server's back
BlobLost(a) ==
  /\ a \in blobs
  /\ blobs' = blobs \ {a}
  /\ UNCHANGED <<inflight,
                 users, nextUserId, teams, nextTeamId, tasks, nextTaskId,
                 now, last,
                 comments, nextCommentId, attachments, nextAttachmentId,
                 logged>>

\* ------------------------------------------------------------ User model
\* the password as the User model stores it: a one-way hash
Hash(password) == <<"hash", password>>

\* user.comparePassword(candidate)
comparePassword(user, candidate) == user.password = Hash(candidate)

\* User.findOne({email})
EmailTaken(us, email) == \E u \in DOMAIN us : us[u].email = email

\* the users collection without its unique index on email
IndexAccepts_NoIndex(us, id, email) == TRUE

\* the unique index on email: a write of `email` to document id is accepted
\* iff no other document holds it
IndexAccepts(us, id, email) ==
  \A u \in DOMAIN us \ {id} : us[u].email # email

AuthRes(code, msg, us) == [code |-> code, msg |-> msg, users |-> us]

\* the document User.create({name, email, password}) stores: role 'user' by
\* the schema's default, the password hashed by the save hook
NewUser(email, password) ==
  [role |-> "user", teams |-> <<>>, email |-> email,
   password |-> Hash(password)]

\* register without the findOne test: the unique index refuses the duplicate
\* and the catch block answers 500
register_NoExistsCheck(us, id, email, password) ==
  IF ~IndexAccepts(us, id, email)
  THEN AuthRes(500, "E11000 duplicate key error", us)
  ELSE AuthRes(201, "ok",
               us @@ (id :> NewUser(email, password)))

\* register on the users collection us, id being the new document's id
register(us, id, email, password) ==
  IF EmailTaken(us, email)
  THEN AuthRes(400, "User already exists with this email", us)
  ELSE IF ~IndexAccepts(us, id, email)
  THEN AuthRes(500, "E11000 duplicate key error", us)
  ELSE AuthRes(201, "ok",
               us @@ (id :> NewUser(email, password)))

\* login that tells an unknown email from a wrong password
login_UserNotFound(us, email, password) ==
  IF email = Empty \/ password = Empty
  THEN ReadRes(400, "Please provide email and password", None)
  ELSE IF ~EmailTaken(us, email)
  THEN ReadRes(404, "User not found", None)
  ELSE LET u == CHOOSE x \in DOMAIN us : us[x].email = email
       IN IF ~comparePassword(us[u], password)
          THEN ReadRes(401, "Invalid credentials", None)
          ELSE ReadRes(200, "ok", u)

\* login writes nothing; data is the id of the user the token is issued for
login(us, email, password) ==
  IF email = Empty \/ password = Empty
  THEN ReadRes(400, "Please provide email and password", None)
  ELSE IF ~EmailTaken(us, email)
  THEN ReadRes(401, "Invalid credentials", None)
  ELSE LET u == CHOOSE x \in DOMAIN us : us[x].email = email
       IN IF ~comparePassword(us[u], password)
          THEN ReadRes(401, "Invalid credentials", None)
          ELSE ReadRes(200, "ok", u)

\* User.findByIdAndUpdate(req.user.id, {name, email}); name is read by no
\* handler: not modelled
updateProfile(us, caller, email) ==
  IF ~IndexAccepts(us, caller, email)
  THEN AuthRes(500, "E11000 duplicate key error", us)
  ELSE AuthRes(200, "ok", [us EXCEPT ![caller].email = email])

\* ----------------------------------------------------------- auth actions
\* register: User.findOne({email})
RegisterFind(s, email, password) ==
  /\ Free(s)
  /\ IF EmailTaken(users, email)
     THEN Respond(s, "register", 400, "User already exists with this email")
     ELSE /\ nextUserId + Pending("register", {"create"})
               <= NumUsers + 1 + MaxRegistered
          /\ Await(s, [op |-> "register", pc |-> "create", email |-> email,
                      password |-> password])
  /\ UNCHANGED <<users, nextUserId, teams, nextTeamId, tasks, nextTaskId, now,
                 collabVars>>

\* register: User.create, which the unique index on email may refuse, then
\* the response
RegisterRun(s) ==
  /\ At(s, "register", "create")
  /\ IF ~IndexAccepts(users, nextUserId, inflight[s].email)
     THEN /\ Respond(s, "register", 500, "E11000 duplicate key error")
          /\ UNCHANGED <<users, nextUserId>>
     ELSE /\ users' = users @@
               (nextUserId :> NewUser(inflight[s].email, inflight[s].password))
          /\ nextUserId' = nextUserId + 1
          /\ Respond(s, "register", 201, "ok")
  /\ UNCHANGED <<teams, nextTeamId, tasks, nextTaskId, now, collabVars>>

\* login: the test on the body, then User.findOne({email}).select('+password')
LoginFind(s, email, password) ==
  /\ Free(s)
  /\ IF email = Empty \/ password = Empty
     THEN Respond(s, "login", 400, "Please provide email and password")
     ELSE IF ~EmailTaken(users, email)
     THEN Respond(s, "login", 401, "Invalid credentials")
     ELSE LET u == CHOOSE x \in DOMAIN users : users[x].email = email
          IN Await(s, [op |-> "login", pc |-> "compare",
                      ok |-> comparePassword(users[u], password)])
  /\ UNCHANGED <<users, nextUserId, teams, nextTeamId, tasks, nextTaskId, now,
                 collabVars>>

\* login: user.comparePassword(password) on the document loaded, then the
\* response
LoginRun(s) ==
  /\ At(s, "login", "compare")
  /\ IF inflight[s].ok
     THEN Respond(s, "login", 200, "ok")
     ELSE Respond(s, "login", 401, "Invalid credentials")
  /\ UNCHANGED <<users, nextUserId, teams, nextTeamId, tasks, nextTaskId, now,
                 collabVars>>

\* updatePassword: User.findById(req.user.id).select('+password')
UpdatePasswordFind(s, caller, current, new) ==
  /\ Free(s)
  /\ Await(s, [op |-> "updatePassword", pc |-> "compare", caller |-> caller,
               ok |-> comparePassword(users[caller], current), new |-> new])
  /\ UNCHANGED <<users, nextUserId, teams, nextTeamId, tasks, nextTaskId, now,
                 collabVars>>

\* updatePassword: user.comparePassword(currentPassword) on the document
\* loaded
UpdatePasswordCompare(s) ==
  /\ At(s, "updatePassword", "compare")
  /\ IF inflight[s].ok
     THEN Await(s, [op |-> "updatePassword", pc |-> "save",
                   caller |-> inflight[s].caller, new |-> inflight[s].new])
     ELSE Respond(s, "updatePassword", 401, "Current password is incorrect")
  /\ UNCHANGED <<users, nextUserId, teams, nextTeamId, tasks, nextTaskId, now,
                 collabVars>>

\* updatePassword: user.save() after user.password = newPassword, which the
\* save hook hashes; then the response with a new token
UpdatePasswordSave(s) ==
  /\ At(s, "updatePassword", "save")
  /\ users' = [users EXCEPT
                 ![inflight[s].caller].password = Hash(inflight[s].new)]
  /\ Respond(s, "updatePassword", 200, "ok")
  /\ UNCHANGED <<nextUserId, teams, nextTeamId, tasks, nextTaskId, now,
                 collabVars>>

UpdatePasswordRun(s) == UpdatePasswordCompare(s) \/ UpdatePasswordSave(s)

\* updateProfile: its one call is User.findByIdAndUpdate, then the response
UpdateProfileReq(caller, email) ==
  LET r == updateProfile(users, caller, email)
  IN /\ users' = r.users
     /\ last' = Served("updateProfile", None, r)
     /\ UNCHANGED <<inflight, nextUserId, teams, nextTeamId, tasks, nextTaskId,
                    now, collabVars>>

\* ------------------------------------------------------- getTasks actions
Params == {<<>>} \cup {<<n>> : n \in (-1)..MaxParam}
Queries == [status : {NoStatus, "completed"}, page : Params, limit : Params]

\* getTasks: Task.find(query).sort().skip().limit(), which refuses a
\* negative skip
GetTasksFind(s, query) ==
  /\ Free(s)
  /\ \E sorted \in SortDesc(Matching(query)) :
       LET page  == ParseParam(query.page, DefaultPage)
           limit == ParseParam(query.limit, DefaultLimit)
           skip  == (page - 1) * limit
       IN IF skip < 0
          THEN Respond(s, "getTasks", 500, "skip value must be >= 0")
          ELSE Await(s, [op |-> "getTasks", pc |-> "count", query |-> query,
                        items |-> Limit(Skip(sorted, skip), limit)])
  /\ UNCHANGED <<users, nextUserId, teams, nextTeamId, tasks, nextTaskId, now,
                 collabVars>>

\* getTasks: Task.countDocuments(query), then the response
GetTasksRun(s) ==
  /\ At(s, "getTasks", "count")
  /\ Respond(s, "getTasks", 200, "ok")
  /\ UNCHANGED <<users, nextUserId, teams, nextTeamId, tasks, nextTaskId, now,
                 collabVars>>

\* a millisecond passes
Tick ==
  /\ now < MaxTime
  /\ now' = now + 1
  /\ UNCHANGED <<inflight,
                 users, nextUserId, teams, nextTeamId, tasks, nextTaskId, last,
                 collabVars>>

\* ----------------------------------------------------------------- Init
\* The database holds NumUsers users and no team or task. Registration gives
\* every user the global role 'user'; a deployment may have seeded user 1 as
\* admin.
InitUsers(seededAdmin) ==
  [u \in 1..NumUsers |->
     [role |-> IF u = 1 /\ seededAdmin THEN "admin" ELSE "user",
      teams |-> <<>>, email |-> u, password |-> Hash(1)]]

EmptyColl == [x \in {} |-> None]

NoRequest == [op |-> "none", task |-> None, code |-> 0, msg |-> ""]

Init ==
  /\ users \in {InitUsers(a) : a \in BOOLEAN}
  /\ nextUserId = NumUsers + 2
  /\ teams = EmptyColl
  /\ nextTeamId = 1
  /\ tasks = EmptyColl
  /\ nextTaskId = 1
  /\ now = 1
  /\ last = NoRequest
  /\ comments = EmptyColl
  /\ nextCommentId = 1
  /\ attachments = EmptyColl
  /\ nextAttachmentId = 1
  /\ blobs = {}
  /\ logged = 0
  /\ inflight = [s \in Slots |-> Idle]

\* ------------------------------------------------------------- team spec
\* The specifications of this section and the following ones serve the
\* requests of one client that awaits each response before its next request:
\* every request is on connection 1.
\* req.body.role of the addMember requests the specifications serve: left out
\* or 'admin' (a record with role 'owner' authorizes what one with 'admin'
\* does, IsOwnerOrAdmin, and the read handlers look at member.user only)
ReadRoles == {NoRole, "admin"}

\* the handlers that write memberships (updateTeam, which writes none, is
\* served with the read handlers below)
TeamNext ==
  \/ \E c \in DOMAIN users : CreateTeamInsert(1, c)
  \/ CreateTeamRun(1)
  \/ \E c \in DOMAIN users, t \in TeamIds, u \in UserIds,
        r \in ReadRoles : AddMemberFind(1, c, t, u, r)
  \/ AddMemberRun(1)
  \/ \E c \in DOMAIN users, t \in TeamIds, u \in UserIds :
        RemoveMemberFind(1, c, t, u)
  \/ RemoveMemberRun(1)
  \/ \E c \in DOMAIN users, t \in TeamIds : DeleteTeamFind(1, c, t)
  \/ DeleteTeamRun(1)

TeamSpec == Init /\ [][TeamNext]_vars

\* the team handlers that decide who is a member, updateTeam and the two read
\* handlers
TeamReadNext ==
  \/ \E c \in DOMAIN users : CreateTeamInsert(1, c)
  \/ CreateTeamRun(1)
  \/ \E c \in DOMAIN users, t \in TeamIds, u \in UserIds, r \in ReadRoles :
        AddMemberFind(1, c, t, u, r)
  \/ AddMemberRun(1)
  \/ \E c \in DOMAIN users, t \in TeamIds, u \in UserIds :
        RemoveMemberFind(1, c, t, u)
  \/ RemoveMemberRun(1)
  \/ \E c \in DOMAIN users, t \in TeamIds : DeleteTeamFind(1, c, t)
  \/ DeleteTeamRun(1)
  \/ \E c \in DOMAIN users, t \in TeamIds : UpdateTeamFind(1, c, t)
  \/ UpdateTeamRun(1)
  \/ \E c \in DOMAIN users : Quiescent /\ GetTeamsReq(c)
  \/ \E c \in DOMAIN users, t \in TeamIds : Quiescent /\ GetTeamReq(c, t)

TeamReadSpec == Init /\ [][TeamReadNext]_vars

\* ------------------------------------------------------------- task spec
TaskReqNext ==
  \/ \E c \in DOMAIN users, a \in {None} \cup UserIds,
        t \in {None} \cup TeamIds : CreateTaskFindUser(1, c, PlainBody(a, t))
  \/ CreateTaskRun(1)
  \/ \E c \in DOMAIN users, id \in TaskIds, b \in OneFieldBodies :
        UpdateTaskFind(1, c, id, b)
  \/ UpdateTaskRun(1)
  \/ \E c \in DOMAIN users, id \in TaskIds : CompleteTaskFind(1, c, id)
  \/ CompleteTaskRun(1)
  \/ \E c \in DOMAIN users, id \in TaskIds : DeleteTaskFind(1, c, id)
  \/ DeleteTaskRun(1)

\* updateTask requests that write the other fields of the schema
TaskFieldNext ==
  \E c \in DOMAIN users, id \in TaskIds, b \in FieldBodies :
    UpdateTaskFind(1, c, id, b)

TaskNext == TaskReqNext \/ TaskFieldNext \/ Tick

\* the task handlers as the clock advances
TaskSpec == Init /\ [][TaskNext]_vars

\* the task handlers served within one millisecond: the authorization rules
\* read no timestamp
TaskReqSpec == Init /\ [][TaskReqNext]_vars

\* ------------------------------------------------------------- auth spec
\* the password changed is user 1's, from the one the database starts with to
\* the other one; the same request sent again is refused
AuthNext ==
  \/ \E e \in Emails, p \in Passwords : RegisterFind(1, e, p)
  \/ RegisterRun(1)
  \/ \E e \in Emails \cup {Empty}, p \in Passwords \cup {Empty} :
        LoginFind(1, e, p)
  \/ LoginRun(1)
  \/ \E c \in DOMAIN users \cap {1} : UpdatePasswordFind(1, c, 1, 2)
  \/ UpdatePasswordRun(1)
  \/ \E c \in DOMAIN users, e \in Emails :
        Quiescent /\ UpdateProfileReq(c, e)

AuthSpec == Init /\ [][AuthNext]_vars

\* the task handlers and the task list
ListNext ==
  \/ TaskReqNext
  \/ TaskFieldNext
  \/ Tick
  \/ \E q \in Queries : GetTasksFind(1, q)
  \/ GetTasksRun(1)

ListSpec == Init /\ [][ListNext]_vars

\* ---------------------------------------------- comments and attachments
\* createTask requests of the specifications below: no assignee, no team
CommentNext ==
  \/ \E c \in DOMAIN users, a \in {None}, t \in {None} :
        CreateTaskFindUser(1, c, PlainBody(a, t))
  \/ CreateTaskRun(1)
  \/ \E c \in DOMAIN users, id \in TaskIds : DeleteTaskFind(1, c, id)
  \/ DeleteTaskRun(1)
  \/ \E c \in DOMAIN users, id \in TaskIds, x \in Contents :
        AddCommentFind(1, c, id, x)
  \/ AddCommentRun(1)
  \/ \E c \in DOMAIN users, id \in CommentIds, x \in Contents :
        UpdateCommentFind(1, c, id, x)
  \/ UpdateCommentRun(1)
  \/ \E c \in DOMAIN users, id \in CommentIds : DeleteCommentFind(1, c, id)
  \/ DeleteCommentRun(1)

\* tasks and their comments
CommentSpec == Init /\ [][CommentNext]_vars

AttachmentNext ==
  \/ \E c \in DOMAIN users, a \in {None}, t \in {None} :
        CreateTaskFindUser(1, c, PlainBody(a, t))
  \/ CreateTaskRun(1)
  \/ \E c \in DOMAIN users, id \in TaskIds : DeleteTaskFind(1, c, id)
  \/ DeleteTaskRun(1)
  \/ \E c \in DOMAIN users, id \in TaskIds, f \in BOOLEAN :
        UploadAttachmentFind(1, c, id, f)
  \/ UploadAttachmentRun(1)
  \/ \E c \in DOMAIN users, id \in AttachmentIds :
        DeleteAttachmentFind(1, c, id)
  \/ DeleteAttachmentRun(1)
  \/ \E a \in AttachmentIds : BlobLost(a)

\* tasks and their attachments
AttachmentSpec == Init /\ [][AttachmentNext]_vars

\* the task, comment and attachment handlers that write a task's reference
\* lists
CollabNext ==
  \/ \E c \in DOMAIN users, a \in {None}, t \in {None} :
        CreateTaskFindUser(1, c, PlainBody(a, t))
  \/ CreateTaskRun(1)
  \/ \E c \in DOMAIN users, id \in TaskIds, b \in RefBodies :
        UpdateTaskFind(1, c, id, b)
  \/ UpdateTaskRun(1)
  \/ \E c \in DOMAIN users, id \in TaskIds : CompleteTaskFind(1, c, id)
  \/ CompleteTaskRun(1)
  \/ \E c \in DOMAIN users, id \in TaskIds, x \in Contents :
        AddCommentFind(1, c, id, x)
  \/ AddCommentRun(1)
  \/ \E c \in DOMAIN users, id \in CommentIds : DeleteCommentFind(1, c, id)
  \/ DeleteCommentRun(1)
  \/ \E c \in DOMAIN users, id \in TaskIds, f \in BOOLEAN :
        UploadAttachmentFind(1, c, id, f)
  \/ UploadAttachmentRun(1)
  \/ \E c \in DOMAIN users, id \in AttachmentIds :
        DeleteAttachmentFind(1, c, id)
  \/ DeleteAttachmentRun(1)

CollabSpec == Init /\ [][CollabNext]_vars

\* the same handlers as the clock advances
StampNext == CollabNext \/ Tick

StampSpec == Init /\ [][StampNext]_vars

\* tasks with comments and attachments, and their deletion; the tasks served
\* here are created by user 1 (the comment and attachment handlers do not
\* read a task's creator) and the comments carry the one text "a"
OrphanNext ==
  \/ \E c \in DOMAIN users \cap {1}, a \in {None}, t \in {None} :
        CreateTaskFindUser(1, c, PlainBody(a, t))
  \/ CreateTaskRun(1)
  \/ \E c \in DOMAIN users, id \in TaskIds : DeleteTaskFind(1, c, id)
  \/ DeleteTaskRun(1)
  \/ \E c \in DOMAIN users, id \in TaskIds : AddCommentFind(1, c, id, "a")
  \/ AddCommentRun(1)
  \/ \E c \in DOMAIN users, id \in CommentIds : DeleteCommentFind(1, c, id)
  \/ DeleteCommentRun(1)
  \/ \E c \in DOMAIN users, id \in TaskIds :
        UploadAttachmentFind(1, c, id, TRUE)
  \/ UploadAttachmentRun(1)
  \/ \E c \in DOMAIN users, id \in AttachmentIds :
        DeleteAttachmentFind(1, c, id)
  \/ DeleteAttachmentRun(1)
  \/ \E id \in AttachmentIds : DownloadAttachmentFind(1, id)
  \/ DownloadAttachmentRun(1)

OrphanSpec == Init /\ [][OrphanNext]_vars

\* createTask with every request body the route hands to the handler, as
\* user 1 creates teams
IntakeNext ==
  \/ CreateTeamInsert(1, 1)
  \/ CreateTeamRun(1)
  \/ \E c \in DOMAIN users, b \in CreateBodies : CreateTaskFindUser(1, c, b)
  \/ CreateTaskRun(1)

IntakeSpec == Init /\ [][IntakeNext]_vars

\* --------------------------------------------------- the first task of a team
\* a newcomer registers, logs in and creates a team, adds users of the
\* database to it, and these create and complete tasks of the team assigned
\* to themselves.
\* The newcomer registers with the one email no user of the database has; the
\* users added are those registration gave the role 'user'.
Newcomers == DOMAIN users \ (1..NumUsers)
JourneyEmail == NumUsers + 1
Invited == 2..NumUsers

JourneyNext ==
  \/ \E p \in Passwords : RegisterFind(1, JourneyEmail, p)
  \/ RegisterRun(1)
  \/ \E p \in Passwords : LoginFind(1, JourneyEmail, p)
  \/ LoginRun(1)
  \/ \E a \in Newcomers : CreateTeamInsert(1, a)
  \/ CreateTeamRun(1)
  \/ \E a \in Newcomers, t \in TeamIds, b \in Invited :
        AddMemberFind(1, a, t, b, NoRole)
  \/ AddMemberRun(1)
  \/ \E b \in Invited \cap DOMAIN users, t \in TeamIds :
        CreateTaskFindUser(1, b, PlainBody(b, t))
  \/ CreateTaskRun(1)
  \/ \E b \in Invited, id \in TaskIds : CompleteTaskFind(1, b, id)
  \/ CompleteTaskRun(1)

JourneySpec == Init /\ [][JourneyNext]_vars

\* ------------------------------------------------- concurrent team requests
\* the team handlers on MaxInflight connections
RaceNext ==
  \/ \E s \in Slots, c \in DOMAIN users : CreateTeamInsert(s, c)
  \/ \E s \in Slots : CreateTeamRun(s)
  \/ \E s \in Slots, c \in DOMAIN users, t \in TeamIds :
        UpdateTeamFind(s, c, t)
  \/ \E s \in Slots : UpdateTeamRun(s)
  \/ \E s \in Slots, c \in DOMAIN users, t \in TeamIds, u \in UserIds,
        r \in ReadRoles : AddMemberFind(s, c, t, u, r)
  \/ \E s \in Slots : AddMemberRun(s)
  \/ \E s \in Slots, c \in DOMAIN users, t \in TeamIds, u \in UserIds :
        RemoveMemberFind(s, c, t, u)
  \/ \E s \in Slots : RemoveMemberRun(s)
  \/ \E s \in Slots, c \in DOMAIN users, t \in TeamIds :
        DeleteTeamFind(s, c, t)
  \/ \E s \in Slots : DeleteTeamRun(s)

RaceSpec == Init /\ [][RaceNext]_vars

\* ------------------------------------------------------ the whole server
\* every handler on MaxInflight connections, the clock and the disk
ServerNext ==
  \/ RaceNext
  \/ \E s \in Slots, c \in DOMAIN users, b \in CreateBodies :
        CreateTaskFindUser(s, c, b)
  \/ \E s \in Slots : CreateTaskRun(s)
  \/ \E s \in Slots, c \in DOMAIN users, id \in TaskIds,
        b \in Bodies \cup RefBodies \cup FieldBodies :
        UpdateTaskFind(s, c, id, b)
  \/ \E s \in Slots : UpdateTaskRun(s)
  \/ \E s \in Slots, c \in DOMAIN users, id \in TaskIds :
        CompleteTaskFind(s, c, id)
  \/ \E s \in Slots : CompleteTaskRun(s)
  \/ \E s \in Slots, c \in DOMAIN users, id \in TaskIds :
        DeleteTaskFind(s, c, id)
  \/ \E s \in Slots : DeleteTaskRun(s)
  \/ \E s \in Slots, q \in Queries : GetTasksFind(s, q)
  \/ \E s \in Slots : GetTasksRun(s)
  \/ \E s \in Slots, c \in DOMAIN users, id \in TaskIds, x \in Contents :
        AddCommentFind(s, c, id, x)
  \/ \E s \in Slots : AddCommentRun(s)
  \/ \E s \in Slots, c \in DOMAIN users, id \in CommentIds, x \in Contents :
        UpdateCommentFind(s, c, id, x)
  \/ \E s \in Slots : UpdateCommentRun(s)
  \/ \E s \in Slots, c \in DOMAIN users, id \in CommentIds :
        DeleteCommentFind(s, c, id)
  \/ \E s \in Slots : DeleteCommentRun(s)
  \/ \E s \in Slots, c \in DOMAIN users, id \in TaskIds, f \in BOOLEAN :
        UploadAttachmentFind(s, c, id, f)
  \/ \E s \in Slots : UploadAttachmentRun(s)
  \/ \E s \in Slots, c \in DOMAIN users, id \in AttachmentIds :
        DeleteAttachmentFind(s, c, id)
  \/ \E s \in Slots : DeleteAttachmentRun(s)
  \/ \E s \in Slots, id \in AttachmentIds : DownloadAttachmentFind(s, id)
  \/ \E s \in Slots : DownloadAttachmentRun(s)
  \/ \E a \in AttachmentIds : BlobLost(a)
  \/ \E s \in Slots, e \in Emails, p \in Passwords : RegisterFind(s, e, p)
  \/ \E s \in Slots : RegisterRun(s)
  \/ \E s \in Slots, e \in Emails \cup {Empty}, p \in Passwords \cup {Empty} :
        LoginFind(s, e, p)
  \/ \E s \in Slots : LoginRun(s)
  \/ \E s \in Slots, c \in DOMAIN users, p \in Passwords, q \in Passwords :
        UpdatePasswordFind(s, c, p, q)
  \/ \E s \in Slots : UpdatePasswordRun(s)
  \/ \E c \in DOMAIN users, e \in Emails : UpdateProfileReq(c, e)
  \/ \E c \in DOMAIN users : GetTeamsReq(c)
  \/ \E c \in DOMAIN users, t \in TeamIds : GetTeamReq(c, t)
  \/ Tick

ServerSpec == Init /\ [][ServerNext]_vars

\* ================================================================ claims
\* the caller may manage the members of team t: membership role owner or
\* admin in t, or global role admin
HoldsManagerRole(c, t) ==
  \/ \E i \in 1..Len(teams[t].members) :
        /\ teams[t].members[i].user = c
        /\ teams[t].members[i].role \in {"owner", "admin"}
  \/ users[c].role = "admin"

\* C1 (TaskSpec): completeTask is idempotent on completedAt: when a successful
\* completeTask on a task directly follows a successful completeTask on the
\* same task, the save of the second leaves the task completed with the
\* completedAt the first one set, at whatever time it is served.
C1_CompleteIdempotent ==
  [][ \A s \in Slots :
        ( /\ last.op = "completeTask" /\ last.code = 200
          /\ At(s, "completeTask", "save")
          /\ inflight[s].task = last.task
          /\ inflight'[s].pc = "populate" )
        => /\ tasks'[last.task].status = "completed"
           /\ tasks'[last.task].completedAt =
                tasks[last.task].completedAt ]_vars

\* C2 (TaskSpec): completedAt is set exactly once: a task whose status is
\* 'completed' has completedAt set, and a completedAt that is set never changes.
C2_CompletedAtSetOnce ==
  [][ \A id \in DOMAIN tasks' :
        /\ tasks'[id].status = "completed" => tasks'[id].completedAt # None
        /\ (id \in DOMAIN tasks /\ tasks[id].completedAt # None)
             => tasks'[id].completedAt = tasks[id].completedAt ]_vars

\* C3 (TeamSpec): every existing team has a membership record of its owner
\* with role 'owner'.
C3_OwnerIsMember ==
  \A t \in DOMAIN teams :
    \E i \in 1..Len(teams[t].members) :
      /\ teams[t].members[i].user = teams[t].owner
      /\ teams[t].members[i].role = "owner"

\* a member was added and removed again, the owner's record is what remains
C3_Witness ==
  /\ last.op = "removeMember" /\ last.code = 200
  /\ \E t \in DOMAIN teams : Len(teams[t].members) = 1

\* C4 as claimed (TeamSpec): a removeMember of the team's owner, served when
\* no other request is in flight, answers 400 'Cannot remove team owner' to
\* every caller and changes nothing.
C4_OwnerRemovalAlways400 ==
  Quiescent =>
    \A c \in DOMAIN users, t \in DOMAIN teams :
      LET r == removeMember(c, t, teams[t].owner)
      IN /\ r.code = 400 /\ r.msg = "Cannot remove team owner"
         /\ r.teams = teams /\ r.users = users

\* C4 amended (TeamSpec): a removeMember of the team's owner, served when no
\* other request is in flight, never succeeds and changes nothing: a caller
\* with membership role owner/admin or global role admin gets 400 'Cannot
\* remove team owner', every other caller gets 403.
C4_OwnerRemovalFails ==
  Quiescent =>
    \A c \in DOMAIN users, t \in DOMAIN teams :
      LET r == removeMember(c, t, teams[t].owner)
      IN /\ r.teams = teams /\ r.users = users
         /\ IF HoldsManagerRole(c, t)
            THEN r.code = 400 /\ r.msg = "Cannot remove team owner"
            ELSE r.code = 403

\* a removal of the owner was refused with 400
C4_Witness ==
  /\ last.op = "removeMember" /\ last.code = 400
  /\ last.msg = "Cannot remove team owner"
  /\ DOMAIN teams # {}

\* C5 (TaskReqSpec): updateTask on an existing task, served when no other
\* request is in flight, answers 403 and leaves the tasks unchanged unless the
\* caller is its creator, its assignee or a global admin; it succeeds only for
\* those.
C5_UpdateTaskForbidden ==
  Quiescent =>
    \A c \in DOMAIN users, id \in DOMAIN tasks,
       b \in Bodies \cup FieldBodies :
      LET r == updateTask(c, id, b)
          allowed == \/ tasks[id].createdBy = c
                     \/ tasks[id].assignedTo = c
                     \/ users[c].role = "admin"
      IN /\ ~allowed => (r.code = 403 /\ r.tasks = tasks)
         /\ r.code = 200 => allowed

\* an update was refused with 403
C5_Witness ==
  /\ last.op = "updateTask" /\ last.code = 403
  /\ last.task \in DOMAIN tasks

\* C6 (TaskReqSpec): deleteTask on an existing task, served when no other
\* request is in flight, removes it only for its creator or a global admin;
\* every other caller, the assignee included, gets 403 and the task is still
\* there.
C6_DeleteTaskForbidden ==
  Quiescent =>
    \A c \in DOMAIN users, id \in DOMAIN tasks :
      LET r == deleteTask(c, id)
          allowed == tasks[id].createdBy = c \/ users[c].role = "admin"
      IN /\ ~allowed =>
              (r.code = 403 /\ r.tasks = tasks /\ id \in DOMAIN r.tasks)
         /\ id \notin DOMAIN r.tasks => allowed

\* a delete was refused with 403 on a task that has an assignee other than
\* its creator
C6_Witness ==
  /\ last.op = "deleteTask" /\ last.code = 403
  /\ last.task \in DOMAIN tasks
  /\ tasks[last.task].assignedTo \notin {None, tasks[last.task].createdBy}

\* C7 (TaskSpec): createdBy is immutable: no request changes the createdBy of
\* an existing task.
C7_CreatedByImmutable ==
  [][ \A id \in DOMAIN tasks \cap DOMAIN tasks' :
        tasks'[id].createdBy = tasks[id].createdBy ]_vars

\* C8 (TeamSpec): addMember and removeMember by a caller without membership
\* role owner/admin and without global role admin, served when no other
\* request is in flight, answer 403 and leave every team and every user
\* unchanged.
C8_MembershipForbidden ==
  Quiescent =>
    \A c \in DOMAIN users, t \in DOMAIN teams :
      ~HoldsManagerRole(c, t) =>
        \A u \in UserIds :
          /\ \A role \in MemberRoles \cup {NoRole} :
               LET r == addMember(c, t, u, role)
               IN r.code = 403 /\ r.teams = teams /\ r.users = users
          /\ LET r == removeMember(c, t, u)
             IN r.code = 403 /\ r.teams = teams /\ r.users = users

\* a member with role 'member' is in a team and a membership change was
\* refused with 403
C8_Witness ==
  /\ last.op \in {"addMember", "removeMember"} /\ last.code = 403
  /\ \E t \in DOMAIN teams : \E i \in 1..Len(teams[t].members) :
       teams[t].members[i].role = "member"

\* C9 (TeamSpec): served when no other request is in flight, addMember
\* answers an authorized caller 404 when the
\* target is no user and 400 when the target already has a membership record,
\* both without any change; otherwise it appends one record of the target with
\* the requested role (default 'member') and changes no other team.
C9_AddMemberOutcome ==
  Quiescent =>
    \A c \in DOMAIN users, t \in DOMAIN teams :
      HoldsManagerRole(c, t) =>
        \A u \in UserIds, role \in MemberRoles \cup {NoRole} :
          LET r == addMember(c, t, u, role)
              wanted == IF role = NoRole THEN "member" ELSE role
          IN IF u \notin DOMAIN users
             THEN r.code = 404 /\ r.teams = teams /\ r.users = users
             ELSE IF \E i \in 1..Len(teams[t].members) :
                       teams[t].members[i].user = u
             THEN r.code = 400 /\ r.teams = teams /\ r.users = users
             ELSE /\ r.code = 200
                  /\ r.teams =
                       [teams EXCEPT ![t].members =
                          Append(@, [user |-> u, role |-> wanted])]

\* an addMember was refused because the target is already a member of a team
\* with several members
C9_Witness ==
  /\ last.op = "addMember" /\ last.code = 400
  /\ \E t \in DOMAIN teams : Len(teams[t].members) >= 2

\* C10 (TeamSpec): when the requests served one after the other are all
\* completed, back-references agree with memberships: a team id is in a
\* user's teams list iff that team exists and has a membership record of the
\* user, and it is there at most once.
C10_BackRefsAgree ==
  Quiescent =>
    \A u \in DOMAIN users, t \in TeamIds :
      /\ Count(users[u].teams, t) <= 1
      /\ Count(users[u].teams, t) >= 1
           <=> (t \in DOMAIN teams /\ CountMember(teams[t].members, u) >= 1)

\* a member was removed and its back-reference with it, while another user
\* still holds one
C10_Witness ==
  /\ Quiescent
  /\ last.op = "removeMember" /\ last.code = 200
  /\ \E u \in DOMAIN users : users[u].teams = <<>>
  /\ \E u \in DOMAIN users : Len(users[u].teams) >= 1

\* C11 (TeamSpec): deleteTeam on an existing team, served when no other
\* request is in flight, succeeds only for the user in
\* team.owner or a global admin; every other caller, also one who holds
\* membership role 'admin' or 'owner' in the team, gets 403 and nothing
\* changes. On success the team is gone, no user's teams list holds its id,
\* and the other teams are as before.
C11_DeleteTeamOwnerOnly ==
  Quiescent =>
    \A c \in DOMAIN users, t \in DOMAIN teams :
      LET r == deleteTeam(c, t)
          allowed == teams[t].owner = c \/ users[c].role = "admin"
      IN IF allowed
         THEN /\ r.code = 200
              /\ t \notin DOMAIN r.teams
              /\ \A u \in DOMAIN r.users : Count(r.users[u].teams, t) = 0
              /\ \A x \in DOMAIN teams \ {t} :
                   x \in DOMAIN r.teams /\ r.teams[x] = teams[x]
         ELSE /\ r.code = 403
              /\ r.teams = teams /\ r.users = users

\* a deleteTeam was refused with 403 while a user other than team.owner holds
\* membership role 'admin' or 'owner' in a team and is no global admin
C11_Witness ==
  /\ last.op = "deleteTeam" /\ last.code = 403
  /\ \E t \in DOMAIN teams : \E i \in 1..Len(teams[t].members) :
       /\ teams[t].members[i].role \in {"admin", "owner"}
       /\ teams[t].members[i].user # teams[t].owner
       /\ users[teams[t].members[i].user].role # "admin"

\* C12 (TeamReadSpec): served when no other request is in flight, getTeam
\* answers 404 for an id of no team; for an
\* existing team it answers 200 with the team to a caller who has a membership
\* record in it or is a global admin, and 403 without data to everyone else.
\* getTeams answers exactly the teams in which the caller has a membership
\* record.
C12_TeamReadAccess ==
  Quiescent =>
    \A c \in DOMAIN users :
      /\ \A t \in TeamIds :
           LET r == getTeam(c, t)
           IN IF t \notin DOMAIN teams
              THEN r.code = 404 /\ r.data = None
              ELSE IF CountMember(teams[t].members, c) >= 1
                      \/ users[c].role = "admin"
              THEN r.code = 200 /\ r.data = teams[t]
              ELSE r.code = 403 /\ r.data = None
      /\ LET r == getTeams(c)
         IN /\ r.code = 200
            /\ \A t \in TeamIds :
                 t \in r.data <=>
                   (t \in DOMAIN teams /\ CountMember(teams[t].members, c) >= 1)

\* a getTeam was refused with 403: a team exists in which some user who is no
\* global admin has no membership record
C12_Witness ==
  /\ last.op = "getTeam" /\ last.code = 403
  /\ \E t \in DOMAIN teams, u \in DOMAIN users :
       /\ CountMember(teams[t].members, u) = 0
       /\ users[u].role # "admin"

\* C13 (CollabSpec): once the requests served are over, every existing task's
\* comments list holds exactly the ids of the existing comments whose parent
\* is that task, each once, and its attachments list exactly the ids of the
\* existing attachments whose parent is that task, each once.
C13_RefListsExact ==
  Quiescent =>
    \A t \in DOMAIN tasks :
      /\ \A c \in CommentIds :
           Count(tasks[t].comments, c) =
             IF c \in DOMAIN comments /\ comments[c].task = t THEN 1 ELSE 0
      /\ \A i \in 1..Len(tasks[t].comments) :
           tasks[t].comments[i] \in DOMAIN comments
      /\ \A a \in AttachmentIds :
           Count(tasks[t].attachments, a) =
             IF a \in DOMAIN attachments /\ attachments[a].task = t
             THEN 1 ELSE 0
      /\ \A i \in 1..Len(tasks[t].attachments) :
           tasks[t].attachments[i] \in DOMAIN attachments

\* C14 (CommentSpec): updateComment and deleteComment on an existing comment
\* take effect only for its author or a global admin: for them updateComment
\* replaces the content and nothing else, and deleteComment removes the record
\* and every occurrence of its id in the parent task's comments list; any
\* other caller gets 403 with the comments and the tasks unchanged.
C14_CommentAuthorOnly ==
  \A c \in DOMAIN users, id \in DOMAIN comments :
    LET allowed == comments[id].author = c \/ users[c].role = "admin"
        parent  == comments[id].task
        d       == deleteComment(c, id)
    IN /\ \A x \in Contents :
            LET u == updateComment(c, id, x)
            IN IF allowed
               THEN /\ u.code = 200
                    /\ u.comments = [comments EXCEPT ![id].content = x]
                    /\ u.tasks = tasks
               ELSE /\ u.code = 403
                    /\ u.comments = comments /\ u.tasks = tasks
       /\ IF allowed
          THEN /\ d.code = 200
               /\ id \notin DOMAIN d.comments
               /\ \A y \in DOMAIN comments \ {id} :
                    y \in DOMAIN d.comments /\ d.comments[y] = comments[y]
               /\ DOMAIN d.tasks = DOMAIN tasks
               /\ parent \in DOMAIN tasks =>
                    /\ Count(d.tasks[parent].comments, id) = 0
                    /\ Len(d.tasks[parent].comments) =
                         Len(tasks[parent].comments)
                           - Count(tasks[parent].comments, id)
          ELSE /\ d.code = 403
               /\ d.comments = comments /\ d.tasks = tasks

\* a deleteComment was refused with 403 and the comment is still in its
\* parent task's list
C14_Witness ==
  /\ last.op = "deleteComment" /\ last.code = 403
  /\ \E id \in DOMAIN comments :
       /\ comments[id].task \in DOMAIN tasks
       /\ Count(tasks[comments[id].task].comments, id) = 1

\* C15 (AttachmentSpec): deleteAttachment by the uploader or a global admin
\* answers 200, removes the id from the parent task's attachments list, the
\* blob and the record, whether or not the blob was still on disk; any other
\* caller gets 403 with the tasks, the blobs and the records unchanged.
C15_DeleteAttachmentBestEffort ==
  \A c \in DOMAIN users, id \in DOMAIN attachments :
    LET allowed == attachments[id].uploadedBy = c \/ users[c].role = "admin"
        parent  == attachments[id].task
        r       == deleteAttachment(c, id)
    IN IF allowed
       THEN /\ r.code = 200
            /\ id \notin DOMAIN r.attachments
            /\ id \notin r.blobs
            /\ r.blobs = blobs \ {id}
            /\ parent \in DOMAIN tasks =>
                 Count(r.tasks[parent].attachments, id) = 0
       ELSE /\ r.code = 403
            /\ r.tasks = tasks /\ r.blobs = blobs
            /\ r.attachments = attachments

\* an attachment whose blob was already gone was deleted with 200: the failed
\* unlink was logged, record and reference are removed
C15_Witness ==
  /\ last.op = "deleteAttachment" /\ last.code = 200
  /\ logged >= 1
  /\ attachments = EmptyColl
  /\ \E t \in DOMAIN tasks : tasks[t].attachments = <<>>

\* C16 (AuthSpec): of two successive register calls with the same email, not
\* yet registered, the first answers 201 and creates one user with that email,
\* leaving the others as they were; the second answers 400, creates no user
\* and changes none.
C16_RegisterTwice ==
  \A e \in Emails, p1 \in Passwords, p2 \in Passwords :
    (\A u \in DOMAIN users : users[u].email # e) =>
      LET first  == register(users, nextUserId, e, p1)
          second == register(first.users, nextUserId + 1, e, p2)
      IN /\ first.code = 201
         /\ DOMAIN first.users = DOMAIN users \cup {nextUserId}
         /\ nextUserId \notin DOMAIN users
         /\ first.users[nextUserId].email = e
         /\ \A u \in DOMAIN users : first.users[u] = users[u]
         /\ second.code = 400
         /\ second.users = first.users

\* a user has registered and a later register was refused with 400
C16_Witness ==
  /\ last.op = "register" /\ last.code = 400
  /\ \E u \in DOMAIN users : u >= NumUsers + 2

\* C17 (AuthSpec): no two users have the same email.
C17_EmailsUnique ==
  \A u \in DOMAIN users, v \in DOMAIN users :
    u # v => users[u].email # users[v].email

\* an updateProfile to the email of another user was refused, after a
\* successful change of email
C17_Witness ==
  /\ last.op = "updateProfile" /\ last.code = 500
  /\ \E u \in 1..NumUsers : users[u].email # u

\* C18 (AuthSpec): login with a non-empty email and password answers 401
\* 'Invalid credentials' without data both for an email of no user and for a
\* user's email with a wrong password, so the two answers are the same; and a
\* login request changes no collection.
C18_LoginUniform ==
  /\ [](\A e \in Emails, p \in Passwords :
          LET known == \E u \in DOMAIN users : users[u].email = e
              wrong == \A u \in DOMAIN users :
                         users[u].email = e => users[u].password # Hash(p)
              r     == login(users, e, p)
          IN /\ (~known \/ wrong) =>
                  /\ r.code = 401 /\ r.msg = "Invalid credentials"
                  /\ r.data = None
             /\ \A e2 \in Emails, p2 \in Passwords :
                  (/\ ~known
                   /\ \E u \in DOMAIN users :
                        /\ users[u].email = e2
                        /\ users[u].password # Hash(p2))
                  => login(users, e2, p2) = r)
  /\ [][( \/ \E s \in Slots :
                 (inflight[s].op = "login" \/ inflight'[s].op = "login")
            \/ (last' # last /\ last'.op = "login") ) =>
          /\ users' = users /\ teams' = teams /\ tasks' = tasks
          /\ comments' = comments /\ attachments' = attachments]_vars

\* a login was refused with 401 while registered users and unused emails exist
C18_Witness ==
  /\ last.op = "login" /\ last.code = 401
  /\ \E u \in DOMAIN users : u >= NumUsers + 2
  /\ \E e \in Emails : \A u \in DOMAIN users : users[u].email # e

\* n is the ceiling of total / limit
IsCeil(n, total, limit) ==
  \/ limit > 0 /\ (n - 1) * limit < total /\ total <= n * limit
  \/ limit < 0 /\ n * limit <= total /\ total < (n - 1) * limit

\* the limit a query asks for: its own, or the default
AskedLimit(q) == IF q.limit = <<>> THEN 10 ELSE q.limit[1]

\* C19 (ListSpec): every getTasks query, whatever its page and limit, is
\* answered with at most limit items and with pages = ceil(total / limit),
\* total being the number of tasks the filter matches.
C19_PageArithmetic ==
  \A q \in Queries : \A sorted \in SortDesc(Matching(q)) :
    LET r == getTasks(q, sorted)
    IN /\ r.code = 200
       /\ r.total = Cardinality(Matching(q))
       /\ Len(r.data) <= AskedLimit(q)
       /\ r.pages # <<>>
       /\ IsCeil(r.pages[1], r.total, AskedLimit(q))

\* a page or limit below 1 read as 1
Coerced(p) == IF p # <<>> /\ p[1] < 1 THEN <<1>> ELSE p

\* C20 (ListSpec): a getTasks query with page < 1 or limit < 1 is answered
\* with 200, and exactly as the same query with each such value replaced
\* by 1.
C20_CoercedToOne ==
  \A q \in Queries : \A sorted \in SortDesc(Matching(q)) :
    LET r == getTasks(q, sorted)
        c == getTasks([q EXCEPT !.page = Coerced(@), !.limit = Coerced(@)],
                      sorted)
    IN /\ r.code = 200
       /\ r = c

\* C21: every request that changes a task document leaves the document's
\* updatedAt equal to the time of the request (updateTask, completeTask,
\* addComment, uploadAttachment, deleteComment and deleteAttachment are the
\* handlers that change a stored task)
C21_UpdatedAtRefreshed ==
  [][\A id \in DOMAIN tasks \cap DOMAIN tasks' :
       tasks'[id] # tasks[id] => tasks'[id].updatedAt = now]_vars

\* C22: each step of the journey, served when no other request is in flight,
\* succeeds in every state the previous steps can leave: a registration with an unused email creates the user; a user's
\* createTeam makes them the owner and a member of the new team and files
\* the team in their teams list; the owner's addMember of a user who is not a
\* member puts that user in the membership and the team in the user's teams
\* list; a member's createTask assigned to themselves in the team creates it;
\* and their completeTask leaves it 'completed' with completedAt set
C22_JourneySucceeds ==
  Quiescent =>
    /\ \A e \in Emails, p \in Passwords :
         ~EmailTaken(users, e) =>
           LET r == register(users, nextUserId, e, p)
           IN r.code = 201 /\ nextUserId \in DOMAIN r.users
    /\ \A a \in DOMAIN users :
         LET r == createTeam(a)
         IN /\ r.code = 201
            /\ r.teams[nextTeamId].owner = a
            /\ \E i \in 1..Len(r.teams[nextTeamId].members) :
                 r.teams[nextTeamId].members[i] = [user |-> a, role |-> "owner"]
            /\ Count(r.users[a].teams, nextTeamId) = 1
    /\ \A t \in DOMAIN teams, b \in DOMAIN users :
         LET a == teams[t].owner
         IN (/\ a \in DOMAIN users
             /\ \E i \in 1..Len(teams[t].members) :
                  teams[t].members[i] = [user |-> a, role |-> "owner"]
             /\ ~HasMember(teams[t].members, b)) =>
              LET r == addMember(a, t, b, NoRole)
              IN /\ r.code = 200
                 /\ HasMember(r.teams[t].members, b)
                 /\ Count(r.users[b].teams, t) >= 1
    /\ \A t \in DOMAIN teams, b \in DOMAIN users :
         HasMember(teams[t].members, b) =>
           LET r == createTask(b, b, t)
           IN /\ r.code = 201
              /\ r.tasks[nextTaskId].createdBy = b
              /\ r.tasks[nextTaskId].assignedTo = b
              /\ r.tasks[nextTaskId].team = t
    /\ \A id \in DOMAIN tasks :
         LET b == tasks[id].createdBy
         IN (b \in DOMAIN users /\ tasks[id].assignedTo = b) =>
              LET r == completeTask(b, id)
              IN /\ r.code = 200
                 /\ r.tasks[id].status = "completed"
                 /\ r.tasks[id].completedAt # None

\* the journey's last request has been served: the task of a team owned by a
\* newcomer, created by and assigned to a member the owner added, is completed
C22_Witness ==
  /\ last.op = "completeTask" /\ last.code = 200
  /\ last.task \in DOMAIN tasks
  /\ LET doc == tasks[last.task]
     IN /\ doc.status = "completed" /\ doc.completedAt # None
        /\ doc.assignedTo = doc.createdBy
        /\ doc.team \in DOMAIN teams
        /\ teams[doc.team].owner \in Newcomers
        /\ doc.createdBy # teams[doc.team].owner
        /\ HasMember(teams[doc.team].members, doc.createdBy)
        /\ Count(users[doc.createdBy].teams, doc.team) = 1

\* C23: a successful deleteTask removes the task document and nothing else:
\* every comment, attachment and file stays as it was. A comment whose task is
\* gone is still updated and deleted by its author or a global admin, an
\* attachment whose task is gone is still deleted by its uploader or a global
\* admin, and its file is still downloaded
C23_DeleteTaskNoCascade ==
  /\ [][\A s \in Slots :
          (At(s, "deleteTask", "deleteOne") /\ inflight'[s].op = "none") =>
            /\ last'.op = "deleteTask" /\ last'.code = 200
            /\ last'.task \in DOMAIN tasks
            /\ tasks' = [x \in DOMAIN tasks \ {last'.task} |-> tasks[x]]
            /\ comments' = comments
            /\ attachments' = attachments
            /\ blobs' = blobs]_vars
  /\ [](\A k \in DOMAIN comments, c \in DOMAIN users :
          (/\ comments[k].task \notin DOMAIN tasks
           /\ (comments[k].author = c \/ users[c].role = "admin")) =>
            /\ \A x \in Contents :
                 LET r == updateComment(c, k, x)
                 IN r.code = 200 /\ r.comments[k].content = x
            /\ LET r == deleteComment(c, k)
               IN r.code = 200 /\ k \notin DOMAIN r.comments)
  /\ [](\A a \in DOMAIN attachments, c \in DOMAIN users :
          attachments[a].task \notin DOMAIN tasks =>
            /\ a \in blobs => downloadAttachment(a).code = 200
            /\ (attachments[a].uploadedBy = c \/ users[c].role = "admin") =>
                 LET r == deleteAttachment(c, a)
                 IN r.code = 200 /\ a \notin DOMAIN r.attachments)

\* a deleteTask has just removed a task that had a comment and an attachment
C23_Witness ==
  /\ last.op = "deleteTask" /\ last.code = 200
  /\ \E k \in DOMAIN comments : comments[k].task = last.task
  /\ \E a \in DOMAIN attachments :
       attachments[a].task = last.task /\ a \in blobs

\* C24: served when no other request is in flight with a body the route
\* hands to the handler, createTask answers 404 and creates nothing when the
\* body's assignedTo names no user or its team names no team; otherwise a
\* body whose priority is absent or in the schema's enum creates a task; a
\* request that creates none leaves the tasks alone, and the task created has createdBy = caller, status 'open' whatever
\* status the body carries, priority 'medium' when the body has none, and
\* empty comments and attachments
C24_CreateTaskOutcome ==
  Quiescent =>
    \A c \in DOMAIN users, b \in CreateBodies :
      LET r == createTaskFrom(c, b)
      IN IF \/ b.assignedTo # None /\ b.assignedTo \notin DOMAIN users
            \/ b.team # None /\ b.team \notin DOMAIN teams
         THEN r.code = 404 /\ r.tasks = tasks
         ELSE /\ b.priority \in Priorities \cup {NoPriority} => r.code = 201
              /\ r.code # 201 => r.tasks = tasks
              /\ r.code = 201 =>
                   /\ DOMAIN r.tasks = DOMAIN tasks \cup {nextTaskId}
                   /\ \A x \in DOMAIN tasks : r.tasks[x] = tasks[x]
                   /\ r.tasks[nextTaskId].createdBy = c
                   /\ r.tasks[nextTaskId].status = "open"
                   /\ b.priority = NoPriority =>
                        r.tasks[nextTaskId].priority = "medium"
                   /\ r.tasks[nextTaskId].comments = <<>>
                   /\ r.tasks[nextTaskId].attachments = <<>>

\* a createTask naming an existing assignee and an existing team has created
\* a task with the default priority
C24_Witness ==
  /\ last.op = "createTask" /\ last.code = 201
  /\ last.task \in DOMAIN tasks
  /\ LET doc == tasks[last.task]
     IN /\ doc.assignedTo \in DOMAIN users
        /\ doc.team \in DOMAIN teams
        /\ doc.status = "open" /\ doc.priority = "medium"
        /\ doc.comments = <<>> /\ doc.attachments = <<>>

\* C25: once the requests served are over, no team has two membership
\* records for one user and no user's teams list holds a team id twice
C25_NoDuplicateMembership ==
  Quiescent =>
    \A t \in DOMAIN teams, u \in DOMAIN users :
      /\ CountMember(teams[t].members, u) <= 1
      /\ Count(users[u].teams, t) <= 1

\* C26: once the requests served are over, every team id in a user's teams
\* list names a team that exists
C26_NoDanglingBackRef ==
  Quiescent =>
    \A u \in DOMAIN users :
      \A i \in 1..Len(users[u].teams) : users[u].teams[i] \in DOMAIN teams
====
